---- MODULE Spec2Model ----
(***************************************************************************)
(* Tape-based reverse-mode differentiation engine of mathino:              *)
(*   src/mathino/src/base.py               tape stack, no_record, MakeOP   *)
(*   src/mathino/src/autograd/backward.py  _backward, grad                 *)
(*   src/mathino/src/tree_util.py          flatten_pytree/unflatten_pytree *)
(*   src/mathino/src/utils.py              broadcast_backward              *)
(*   src/mathino/src/functions/*.py        add, multiply, negative, sum,   *)
(*                                         where                           *)
(*   src/mathino/src/array.py              NDarray                         *)
(*   src/faketensor/src/jit/*.py           jit, trace_mode, StaticGraph    *)
(*                                                                         *)
(* Arrays are integer arrays held in row-major order.  An object is        *)
(* identified by its position in heap, its backend buffer by the field np  *)
(* (the position of the object the buffer was made for); 0 is None.        *)
(***************************************************************************)
EXTENDS Integers, Sequences, FiniteSets, TLC

VARIABLES heap, TAPE_STACK, RECORDING, frames, last, steps, tin, tout, jit,
          insts, threads

vars == <<heap, TAPE_STACK, RECORDING, frames, last, steps, tin, tout, jit,
          insts, threads>>

\* ------------------------------------------------------------------------
\* Bounds
\* ------------------------------------------------------------------------
\* the work a behaviour may do: a block entry or exit or a primitive call
\* is one unit, a grad call GradCost units
MaxSteps == 4
GradCost == 3
\* a grad call starts only while the heap holds at most MaxHeap objects
MaxHeap == 6
\* nesting depth of the values given to flatten_pytree
MaxDepth == 3
\* the script passes an array on to a primitive while its entries are within
\* -MaxVal .. MaxVal
MaxVal == 50
\* calls the script of the JIT layer makes
MaxCalls == 3
\* broadcast_backward is applied to gradients of rank <= MaxRank with
\* dimensions 1..MaxDim, MaxApply times in a row
MaxRank == 2
MaxDim == 3
MaxApply == 1

\* the attributes assigned to one Cell
MaxAttrs == 2

\* the calls one thread makes
MaxRuns == 1

\* ------------------------------------------------------------------------
\* Backend arrays (numpy): a shape and the integer entries in row-major
\* order
\* ------------------------------------------------------------------------
RECURSIVE Prod(_)
Prod(s) == IF s = <<>> THEN 1 ELSE Head(s) * Prod(Tail(s))

Size(shape) == Prod(shape)

MaxOf(a, b) == IF a >= b THEN a ELSE b

\* dimension k of a shape right-aligned in rank n (1 where it has none)
DimAt(sh, n, k) == IF k > n - Len(sh) THEN sh[k - (n - Len(sh))] ELSE 1

\* numpy broadcasting of two compatible shapes
BroadcastShape(sa, sb) ==
    [k \in 1..MaxOf(Len(sa), Len(sb)) |->
        MaxOf(DimAt(sa, MaxOf(Len(sa), Len(sb)), k),
              DimAt(sb, MaxOf(Len(sa), Len(sb)), k))]

\* the step of axis k in row-major order
Stride(sh, k) == Prod(SubSeq(sh, k + 1, Len(sh)))

\* coordinate along axis k of the entry at position i (from 1) of shape sh
Coord(sh, k, i) == ((i - 1) \div Stride(sh, k)) % sh[k]

RECURSIVE SumSeq(_)
SumSeq(s) == IF s = <<>> THEN 0 ELSE Head(s) + SumSeq(Tail(s))

\* the position in an array of shape s that entry i of the broadcast shape
\* sh is read from
BroadcastIndex(s, sh, i) ==
    1 + SumSeq([k \in 1..Len(s) |->
            IF s[k] = 1 THEN 0
            ELSE Coord(sh, k + Len(sh) - Len(s), i) * Stride(s, k)])

\* entry i of array a viewed under the broadcast shape sh
At(a, sh, i) == a.data[BroadcastIndex(a.shape, sh, i)]

\* an array value, its shape and entries held as tuples
Arr(shape, data) == [shape |-> shape \o <<>>, data |-> data \o <<>>]

lib_add(a, b) ==
    Arr(BroadcastShape(a.shape, b.shape),
        [i \in 1..Size(BroadcastShape(a.shape, b.shape)) |->
            At(a, BroadcastShape(a.shape, b.shape), i)
            + At(b, BroadcastShape(a.shape, b.shape), i)])

lib_multiply(a, b) ==
    Arr(BroadcastShape(a.shape, b.shape),
        [i \in 1..Size(BroadcastShape(a.shape, b.shape)) |->
            At(a, BroadcastShape(a.shape, b.shape), i)
            * At(b, BroadcastShape(a.shape, b.shape), i)])

\* lib.where(c, x, y): x where c is not zero, y elsewhere
lib_where(c, x, y) ==
    Arr(BroadcastShape(BroadcastShape(c.shape, x.shape), y.shape),
        [i \in 1..Size(BroadcastShape(BroadcastShape(c.shape, x.shape), y.shape)) |->
            IF At(c, BroadcastShape(BroadcastShape(c.shape, x.shape), y.shape), i) # 0
            THEN At(x, BroadcastShape(BroadcastShape(c.shape, x.shape), y.shape), i)
            ELSE At(y, BroadcastShape(BroadcastShape(c.shape, x.shape), y.shape), i)])

lib_negative(a) == Arr(a.shape, [i \in 1..Size(a.shape) |-> 0 - a.data[i]])

\* the shape of a with axis ax (from 1) reduced to 1
KeptShape(shape, ax) == [k \in 1..Len(shape) |-> IF k = ax THEN 1 ELSE shape[k]]

DropAxis(shape, ax) == SubSeq(shape, 1, ax - 1) \o SubSeq(shape, ax + 1, Len(shape))

\* lib.sum(x, axis=ax - 1, keepdims=keepdims)
lib_sum(a, ax, keepdims) ==
    Arr(IF keepdims THEN KeptShape(a.shape, ax) ELSE DropAxis(a.shape, ax),
        [j \in 1..Size(KeptShape(a.shape, ax)) |->
            SumSeq([t \in 1..a.shape[ax] |->
                a.data[1 + (t - 1) * Stride(a.shape, ax)
                         + SumSeq([k \in 1..Len(a.shape) |->
                               Coord(KeptShape(a.shape, ax), k, j)
                               * Stride(a.shape, k)])]])])

\* lib.expand_dims(g, ax - 1)
lib_expand_dims(a, ax) ==
    Arr(SubSeq(a.shape, 1, ax - 1) \o <<1>> \o SubSeq(a.shape, ax, Len(a.shape)),
        a.data)

lib_broadcast_to(a, shape) == Arr(shape, [i \in 1..Size(shape) |-> At(a, shape, i)])

ones_like(a) == Arr(a.shape, [i \in 1..Size(a.shape) |-> 1])

\* a default that is not zero
zeros_like_unit(a) == Arr(a.shape, [i \in 1..Size(a.shape) |-> 1])

zeros_like(a) == Arr(a.shape, [i \in 1..Size(a.shape) |-> 0])

\* ------------------------------------------------------------------------
\* The interpreter state threaded through one synchronous call:
\*   heap   every array object created so far (nd: it is held as an NDarray,
\*          train: NDarray.train)
\*   stack  TAPE_STACK, rec: _RECORDING
\*   open   the tape() blocks currently open, innermost last (index into
\*          stack of the tape each pushed)
\*   log    the grad_fn calls made by reverse passes, fin: the gradient
\*          dictionary each finished pass returned
\*   grads  the dictionary of the reverse pass under way
\*   ret, rets   the value(s) returned by the call just made
\* ------------------------------------------------------------------------
Machine(h, st, rec, open) ==
    [heap |-> h, stack |-> st, rec |-> rec, open |-> open,
     log |-> <<>>, fin |-> <<>>, grads |-> <<>>, ret |-> 0, rets |-> <<>>,
     tree |-> [k |-> "none"], err |-> ""]

\* the exception is lost
raised_never(m) == FALSE

\* an exception raised in the call is on its way to the caller
raised(m) == m.err # ""

\* a new array object around a new backend buffer (np: the identity of the
\* buffer); NDarray.__init__ sets train = True
Alloc(m, a, nd) ==
    [m EXCEPT !.heap = Append(@, [shape |-> a.shape, data |-> a.data,
                                   nd |-> nd, train |-> nd,
                                   np |-> Len(m.heap) + 1]),
              !.ret = Len(m.heap) + 1]

\* as_nd(python scalar)
as_nd_scalar(m, v) == Alloc(m, Arr(<<>>, <<v>>), TRUE)

active_tape(stack) == IF stack # <<>> THEN Len(stack) ELSE 0

\* the innermost tape() block that is open (0: none)
OpenScope(m) == IF m.open = <<>> THEN 0 ELSE m.open[Len(m.open)]

SuspendNoop(prev) == prev

\* MakeOP.__call__: _RECORDING = False while the forward runs
Suspend(prev) == FALSE

Node(out, parents, op, owner) ==
    [out |-> out, parents |-> parents, op |-> op, owner |-> owner]

Unary == {"negative", "sum", "sumk", "sq1", "boom"}

\* the operands of where(cond, x, y) are a = cond and b = <<x, y>>
Parents(op, a, b) ==
    IF op \in Unary THEN <<a>>
    ELSE IF op = "where" THEN <<a, b[1], b[2]>>
    ELSE <<a, b>>

RECURSIVE MakeOP_call(_, _, _, _)

\* a wrapped call whose first (last) argument is the value just returned
CallOnRet(m, op, b) == MakeOP_call(m, op, m.ret, b)

CallWithRet(m, op, a) == MakeOP_call(m, op, a, m.ret)

\* the forward implementations self.fun(*args); ret is the output
Forward(m, op, a, b) ==
    CASE op = "add"      -> Alloc(m, lib_add(m.heap[a], m.heap[b]), TRUE)
      [] op = "multiply" -> Alloc(m, lib_multiply(m.heap[a], m.heap[b]), TRUE)
      [] op = "negative" -> Alloc(m, lib_negative(m.heap[a]), TRUE)
      [] op = "where"    ->
            Alloc(m, lib_where(m.heap[a], m.heap[b[1]], m.heap[b[2]]), TRUE)
      \* a custom_function whose grad_fn raises: out = -x
      [] op = "boom"     -> Alloc(m, lib_negative(m.heap[a]), TRUE)
      \* sum(x, axis=0) and sum(x, axis=b - 1, keepdims=True)
      [] op = "sum"      -> Alloc(m, lib_sum(m.heap[a], 1, FALSE), TRUE)
      [] op = "sumk"     -> Alloc(m, lib_sum(m.heap[a], b, TRUE), TRUE)
      [] op = "sq1"      ->
            \* a custom_function whose forward is built from primitives:
            \*   out = x * x + x
            CallOnRet(MakeOP_call(m, "multiply", a, a), "add", a)

\* the end of MakeOP.__call__: m is the state the forward left, prev the
\* flag saved on entry
MakeOP_record(m, prev, op, a, b) ==
    LET t == active_tape(m.stack)
    IN IF t # 0 /\ prev
       THEN [m EXCEPT !.rec = prev,
                      !.stack[t] = Append(@, Node(m.ret, Parents(op, a, b), op,
                                                  OpenScope(m)))]
       ELSE [m EXCEPT !.rec = prev]

MakeOP_call(m, op, a, b) ==
    MakeOP_record(Forward([m EXCEPT !.rec = Suspend(m.rec)], op, a, b),
                  m.rec, op, a, b)

\* ------------------------------------------------------------------------
\* MakeOP around a forward written by the user.  The forward computes
\* out = -x with the gradient rule of negative; fun names what it returns:
\*   "triple"  (out, parents, grad_fn)      "pair"  (out, grad_fn)
\*   "array"   out alone, not a tuple       "single"  (out,)
\*   "four"    (out, parents, grad_fn, None)
\*   "number"  (out, parents, 1.0): grad_fn is not callable
\*   "scalar"  (out, x, grad_fn): parents is neither tuple nor list
\* ------------------------------------------------------------------------
Returns == {"triple", "pair", "array", "single", "four", "number", "scalar"}

Conforming == {"triple", "pair"}

\* MakeOP.__init__(fun): self.fun = fun; err is the exception raised
MakeOP_init(fun) == [kind |-> "MakeOP", fun |-> fun, parents |-> <<>>, err |-> ""]

\* lines 166-186: the exception the checks of the output raise ("": none)
check_output(fun) ==
    CASE fun = "array" -> "TypeError"
      [] fun \in {"single", "four"} -> "ValueError"
      [] fun = "scalar" -> "TypeError"
      [] fun = "number" -> "TypeError"
      [] OTHER -> ""

\* lines 163-194, m the state self.fun(*args) left and prev the flag saved
MakeOP_checked(m, prev, fun, a) ==
    IF check_output(fun) # ""
    THEN [m EXCEPT !.rec = prev, !.err = check_output(fun), !.ret = 0]
    ELSE MakeOP_record(m, prev, "negative", a, 0)

\* MakeOP(fun)(x)
MakeOP_user(m, fun, a) ==
    MakeOP_checked(Forward([m EXCEPT !.rec = Suspend(m.rec)], "negative", a, 0),
                   m.rec, fun, a)

\* ------------------------------------------------------------------------
\* Op (autograd/custom_function.py).  An instance is [has, parents]: has
\* is FALSE while self.parents is None.  The forward of the script's Op
\* subclass is out = -args[0], its backward the rule of negative.
\* ------------------------------------------------------------------------
\* Op.__init__: self.parents = None
Op_init == [kind |-> "Op", has |-> FALSE, parents |-> <<>>, by_user |-> FALSE]

\* Op.add_parents(*args): self.parents = list(args)
add_parents(self, args) ==
    [self EXCEPT !.has = TRUE, !.parents = args, !.by_user = TRUE]

\* line 11: parents = args if self.parents is None else self.parents
fun_parents(self, args) == IF self.has THEN self.parents ELSE args

\* lines 12-13: if self.parents is None: self.parents = list(parents)
fun_store(self, args) ==
    IF self.has THEN self ELSE [self EXCEPT !.has = TRUE, !.parents = args]

\* base.py lines 191-194 for a forward that returned (out, parents, grad_fn);
\* local is the tape the grad_fn closes over (fuse), <<>> where it has none
MakeOP_append(m, prev, op, parents, local) ==
    LET t == active_tape(m.stack)
    IN IF t # 0 /\ prev
       THEN [m EXCEPT !.rec = prev,
                      !.stack[t] = Append(@, Node(m.ret, parents, op, OpenScope(m))
                                                @@ [local |-> local])]
       ELSE [m EXCEPT !.rec = prev]

\* Op.apply(*args): self.build()(*args)
Op_apply(m, self, args) ==
    MakeOP_append(Forward([m EXCEPT !.rec = Suspend(m.rec)], "negative", args[1], 0),
                  m.rec, "negative", fun_parents(self, args), <<>>)

\* ------------------------------------------------------------------------
\* broadcast_backward(grad, x_shape): reduces with the wrapped primitive sum
\* ------------------------------------------------------------------------
\* lines 7-8: while grad has more dimensions than x, the leading one is
\* summed away
RECURSIVE sum_leading(_, _, _)

\* the loop goes on with the sum just returned
sum_again(m, x_shape) == sum_leading(m, m.ret, x_shape)

sum_leading(m, g, x_shape) ==
    IF Len(m.heap[g].shape) > Len(x_shape)
    THEN sum_again(MakeOP_call(m, "sum", g, 0), x_shape)
    ELSE [m EXCEPT !.ret = g]

\* lines 11-13: axis i of size 1 in x and not in grad is summed with
\* keepdims; sg is grad.shape as the loop began
RECURSIVE sum_kept(_, _, _, _)
sum_kept(m, x_shape, sg, i) ==
    IF i > Len(x_shape) \/ i > Len(sg) THEN m
    ELSE IF x_shape[i] = 1 /\ sg[i] # 1
         THEN sum_kept(MakeOP_call(m, "sumk", m.ret, i), x_shape, sg, i + 1)
         ELSE sum_kept(m, x_shape, sg, i + 1)

sum_axes_skip(m, x_shape) == m

sum_axes(m, x_shape) == sum_kept(m, x_shape, m.heap[m.ret].shape, 1)

broadcast_backward(m, g, x_shape) == sum_axes(sum_leading(m, g, x_shape), x_shape)

\* broadcast_backward of the value just returned
broadcast_ret(m, x_shape) == broadcast_backward(m, m.ret, x_shape)

\* the tuple a grad_fn returns is collected in rets
NoRets(m) == [m EXCEPT !.rets = <<>>]

PushRet(m) == [m EXCEPT !.rets = Append(@, m.ret)]

PushNone(m) == [m EXCEPT !.rets = Append(@, 0)]

\* entry k of the tuple is replaced by the value just returned
SetRet(m, k) == [m EXCEPT !.rets[k] = m.ret]

\* entry k of the tuple reduced to a parent's shape
reduce_ret(m, k, shape) == SetRet(broadcast_backward(m, m.rets[k], shape), k)

\* where(cond, g, zero) and where(cond, zero, g), zero the as_nd(0.) just
\* made
where_g_zero(m, cond, g) == MakeOP_call(m, "where", cond, <<g, m.ret>>)

where_zero_g(m, cond, g) == MakeOP_call(m, "where", cond, <<m.ret, g>>)

\* the grad_fn of where: (None, broadcast_backward(gx, x.shape),
\* broadcast_backward(gy, y.shape))
where_grad_fn(m, node, g) ==
    reduce_ret(
        reduce_ret(
            PushRet(where_zero_g(as_nd_scalar(
                PushRet(where_g_zero(as_nd_scalar(PushNone(NoRets(m)), 0),
                                     node.parents[1], g)),
                0), node.parents[1], g)),
            2, m.heap[node.parents[2]].shape),
        3, m.heap[node.parents[3]].shape)

\* add(value just returned, as_nd(v))
add_scalar(m, v) == CallWithRet(as_nd_scalar(m, v), "add", m.ret)

\* ------------------------------------------------------------------------
\* The local gradient rules node.grad_fn(g); rets is the returned tuple.
\* x and y are the call's arguments, which are also the node's parents.
\* ------------------------------------------------------------------------
RECURSIVE grad_fn(_, _, _)
RECURSIVE fused_grad_fn(_, _, _)

grad_fn(m, node, g) ==
    LET x == node.parents[1]
        y == node.parents[Len(node.parents)]
        xs == m.heap[x].shape
        ys == m.heap[y].shape
    IN CASE node.op = "fused" -> fused_grad_fn(m, node, g)
         [] node.op = "add" ->
              PushRet(broadcast_backward(
                  PushRet(broadcast_backward(NoRets(m), g, xs)), g, ys))
         [] node.op = "multiply" ->
              PushRet(broadcast_ret(
                  MakeOP_call(
                      PushRet(broadcast_ret(
                          MakeOP_call(NoRets(m), "multiply", g, y), xs)),
                      "multiply", g, x),
                  ys))
         [] node.op = "negative" ->
              PushRet(MakeOP_call(NoRets(m), "negative", g, 0))
         [] node.op = "where" -> where_grad_fn(m, node, g)
         [] node.op = "boom" ->
              \* grad_fn(g): raise ValueError
              [NoRets(m) EXCEPT !.err = "ValueError"]
         [] node.op = "sum" ->
              PushRet(Alloc(NoRets(m),
                            lib_broadcast_to(lib_expand_dims(m.heap[g], 1), xs),
                            TRUE))
         [] node.op = "sumk" ->
              PushRet(Alloc(NoRets(m), lib_broadcast_to(m.heap[g], xs), TRUE))
         [] node.op = "sq1" ->
              \* grad_fn(g) = (multiply(g, add(add(x, x), as_nd(1))),)
              PushRet(CallWithRet(
                  add_scalar(MakeOP_call(NoRets(m), "add", x, x), 1),
                  "multiply", g))

PlusOverwrite(m, a, b) == [m EXCEPT !.ret = b]

PlusRaw(m, a, b) ==
    IF a = 0 THEN Alloc(m, Arr(m.heap[b].shape, m.heap[b].data), FALSE)
    ELSE Alloc(m, lib_add(m.heap[a], m.heap[b]), FALSE)

\* a + b of Python: NDarray.__add__/__radd__ call the primitive add, two
\* backend arrays add without the tape; a = 0 is the integer 0
Plus(m, a, b) ==
    IF a = 0
    THEN IF m.heap[b].nd
         THEN CallOnRet(as_nd_scalar(m, 0), "add", b)
         ELSE Alloc(m, Arr(m.heap[b].shape, m.heap[b].data), FALSE)
    ELSE IF m.heap[a].nd \/ m.heap[b].nd
         THEN MakeOP_call(m, "add", a, b)
         ELSE Alloc(m, lib_add(m.heap[a], m.heap[b]), FALSE)

is_leaf_any(h, x) == x # 0 /\ h[x].nd

\* is_leaf(x): NDarray or Variable with train = True
is_leaf(h, x) == x # 0 /\ h[x].nd /\ h[x].train

\* is_leaf(p) of a recorded parent: every primitive records as_nd(x), a new
\* NDarray (train = True) around the buffer of x
parent_is_leaf(h, p) == p # 0

\* _id(x): id(x.np) of a leaf, the id of the object itself (never that of
\* a buffer) otherwise
id_leaf(h, x) == IF is_leaf(h, x) THEN h[x].np ELSE 0 - x

\* _id(p) of a recorded parent or output, as_nd(x): the buffer of x
id_as_nd(h, p) == h[p].np

\* grads.get(k): 0 is None
Get(grads, k) == IF k \in DOMAIN grads THEN grads[k] ELSE 0

Put(grads, k, v) == [i \in DOMAIN grads \cup {k} |-> IF i = k THEN v ELSE grads[i]]

MinOf(a, b) == IF a <= b THEN a ELSE b

\* grads[pid] = the sum just computed
StoreGrad(m, p) == [m EXCEPT !.grads = Put(@, p, m.ret)]

\* ------------------------------------------------------------------------
\* The grad_fn fuse builds (eager_fusion.py lines 30-42).  Its dictionary
\* is keyed by id(object); it is held in grads while the walk runs
\* ------------------------------------------------------------------------
\* lines 38-41: the contributions of one captured node
RECURSIVE fused_acc(_, _, _)
fused_acc(m, n, k) ==
    IF k > MinOf(Len(n.parents), Len(m.rets)) THEN m
    ELSE IF m.rets[k] = 0 THEN fused_acc(m, n, k + 1)
    ELSE fused_acc(StoreGrad(Plus(m, Get(m.grads, n.parents[k]), m.rets[k]),
                             n.parents[k]),
                   n, k + 1)

\* lines 32-41: for n in reversed(local_tape), i the nodes still to walk
RECURSIVE fused_walk(_, _, _)
fused_walk(m, local, i) ==
    IF i = 0 THEN m
    ELSE IF Get(m.grads, local[i].out) = 0 THEN fused_walk(m, local, i - 1)
    ELSE fused_walk(fused_acc(grad_fn(m, local[i], Get(m.grads, local[i].out)),
                              local[i], 1),
                    local, i - 1)

\* line 42: tuple(grads.get(id(p)) for p in parents); outer is the
\* dictionary of the reverse pass that called the grad_fn
fused_return(m, parents, outer) ==
    [m EXCEPT !.rets = [i \in 1..Len(parents) |-> Get(m.grads, parents[i])] \o <<>>,
              !.grads = outer]

\* line 18: lambda g: (), and lines 30-42
fused_grad_fn(m, node, g) ==
    IF node.local = <<>> THEN NoRets(m)
    ELSE fused_return(fused_walk([m EXCEPT !.grads = (node.out :> g)],
                                 node.local, Len(node.local)),
                      node.parents, m.grads)

\* lines 141-151: the contributions of one node, parent by parent; m.rets
\* is the tuple its grad_fn returned
RECURSIVE Accumulate(_, _, _)

\* a None ends the loop
stop_at_none(m, node, k) == m

\* lines 148-149: if pg is None: continue
skip_none(m, node, k) == Accumulate(m, node, k + 1)

Accumulate(m, node, k) ==
    IF raised(m) \/ k > MinOf(Len(node.parents), Len(m.rets)) THEN m
    ELSE LET p == node.parents[k]
             pg == IF parent_is_leaf(m.heap, p) THEN m.rets[k] ELSE 0
         IN IF pg = 0 THEN skip_none(m, node, k)
            ELSE Accumulate(StoreGrad(Plus(m, Get(m.grads, id_as_nd(m.heap, p)), pg),
                                      id_as_nd(m.heap, p)),
                            node, k + 1)

forward_order(n, k) == k

\* reversed(tape_records): the k-th node visited of a tape of n nodes
reversed_order(n, k) == n + 1 - k

\* the visit of a node's grad_fn is noted in log; n is the number of nodes
\* the tape held when the pass began
Visit(m, pass, t, n, i, node, g) ==
    [m EXCEPT !.log = Append(@, [pass |-> pass, tape |-> t, idx |-> i,
                                 out |-> node.out, g |-> g, n |-> n])]

\* the tape read again at every step of the loop, up to two nodes more
reversed_live(m, t, n) == IF t = 0 THEN 0 ELSE MinOf(Len(m.stack[t]), n + 2)

\* line 132: reversed(tape_records) fixes its range when the loop begins
reversed_start(m, t, n) == n

\* g = grads[_id(node.out)], the lookup that fails on a missing key
dead_branch_raises(m) == [m EXCEPT !.err = "KeyError"]

\* lines 133-135: g = grads.get(_id(node.out)); if g is None: continue
dead_branch(m) == m

\* lines 132-151: the reverse pass over the n nodes the tape held when the
\* loop began; k counts the nodes already passed
RECURSIVE ReversePass(_, _, _, _, _)
ReversePass(m, pass, t, n, k) ==
    IF k > reversed_start(m, t, n) \/ raised(m) THEN m
    ELSE LET i == reversed_order(reversed_start(m, t, n), k)
             node == m.stack[t][i]
             g == Get(m.grads, id_as_nd(m.heap, node.out))
         IN IF g = 0 THEN ReversePass(dead_branch(m), pass, t, n, k + 1)
            ELSE ReversePass(
                     Accumulate(grad_fn(Visit(m, pass, t, n, i, node, g), node, g),
                                node, 1),
                     pass, t, n, k + 1)

\* ------------------------------------------------------------------------
\* User functions.  A straight-line function is a sequence of instructions
\* <<op, a, b>> over the environment (the array arguments, then the results
\* so far); its value is the last result.  x * y and x + y are
\* NDarray.__mul__ and NDarray.__add__.
\* ------------------------------------------------------------------------
RECURSIVE RunCode(_, _, _, _)

\* the rest of the function, the value just returned added to env
RunRest(m, code, env, k) == RunCode(m, code, Append(env, m.ret), k)

RECURSIVE fuse_call(_, _, _)

RunCode(m, code, env, k) ==
    IF k > Len(code) THEN [m EXCEPT !.ret = env[Len(env)]]
    ELSE LET ins == code[k]
         IN IF ins[1] = "fuse"
            THEN RunRest(fuse_call(m, ins[3], <<env[ins[2]]>>), code, env, k + 1)
            ELSE
            RunRest(MakeOP_call(m, ins[1], env[ins[2]],
                                IF ins[1] = "where" THEN <<env[ins[3]], env[ins[4]]>>
                                ELSE IF ins[3] = 0 THEN 0 ELSE env[ins[3]]),
                    code, env, k + 1)

\* ------------------------------------------------------------------------
\* fuse(fun) (eager_fusion.py): MakeOP around primitive, which runs fun
\* with a local tape on top of TAPE_STACK.  <<"fuse", i, code>> in a user
\* function calls fuse(code) on environment slot i.
\* ------------------------------------------------------------------------
\* lines 21: produced = {id(n.out) for n in local_tape}
produced(local) == {local[i].out : i \in 1..Len(local)}

\* lines 22-27: the parents no captured node produced, in order of first
\* use (dict.fromkeys drops the repeats)
RECURSIVE dedupe(_, _)
dedupe(ps, acc) ==
    IF ps = <<>> THEN acc
    ELSE dedupe(Tail(ps),
                IF \E j \in 1..Len(acc) : acc[j] = Head(ps) THEN acc
                ELSE Append(acc, Head(ps)))

\* for n in local_tape: for p in n.parents
RECURSIVE parents_of(_)
parents_of(local) ==
    IF local = <<>> THEN <<>> ELSE Head(local).parents \o parents_of(Tail(local))

external(local) ==
    dedupe(SelectSeq(parents_of(local),
                     LAMBDA p : p \notin produced(local)),
           <<>>)

\* lines 15-18 and 44: TAPE_STACK.pop(), then the triple primitive returns
\* is recorded by MakeOP.__call__; m is the state fun(*args) left, d the
\* depth of TAPE_STACK with the local tape on it
fuse_return(m, prev, d) ==
    MakeOP_append([m EXCEPT !.stack = SubSeq(@, 1, Len(@) - 1)], prev, "fused",
                  IF m.stack[d] = <<>> THEN <<>> ELSE external(m.stack[d]),
                  m.stack[d])

\* fuse(fun)(*args): lines 10-13 inside MakeOP.__call__
fuse_call(m, code, args) ==
    fuse_return(RunCode([m EXCEPT !.rec = Suspend(m.rec),
                                  !.stack = Append(@, <<>>)],
                        code, args, 1),
                m.rec, Len(m.stack) + 1)

\* ------------------------------------------------------------------------
\* Python values as trees.  k is what isinstance tells about the object
\* ("leaf": none of the container kinds), cls its concrete class, keys the
\* dict keys / dataclass field names / Cell attribute names in order, c the
\* children, v the identity of a leaf object (0: None).
\* ------------------------------------------------------------------------
Leaf(v) == [k |-> "leaf", cls |-> "object", keys |-> <<>>, c |-> <<>>, v |-> v]

Box(k, cls, keys, c) == [k |-> k, cls |-> cls, keys |-> keys, c |-> c, v |-> 0]

Raised(exc) == [k |-> "raised", cls |-> exc, keys |-> <<>>, c |-> <<>>, v |-> 0]

\* the concrete classes of each kind: list, tuple and dict themselves, and
\* subclasses of them (Parameter is mathino.nn.Parameter, a list subclass)
SeqClasses == {"list", "tuple", "Parameter", "Point"}

DictClasses == {"dict", "OrderedDict"}

\* _PYTREE_REGISTRY after the package is imported: Cell is registered
PYTREE_REGISTRY == {"Cell"}

TreeDef(typ, children) == [typ |-> typ, children |-> children]

Typ(tag, cls, meta) == [tag |-> tag, cls |-> cls, meta |-> meta]

RECURSIVE Concat(_)
Concat(ss) == IF ss = <<>> THEN <<>> ELSE Head(ss) \o Concat(Tail(ss))

\* flatten of a Cell (nn/base.py): Variables and sub-Cells of __dict__ in
\* attribute order; meta keeps the two name lists
SelectIdx(n, P(_)) ==
    LET RECURSIVE Go(_)
        Go(i) == IF i > n THEN <<>>
                 ELSE (IF P(i) THEN <<i>> ELSE <<>>) \o Go(i + 1)
    IN Go(1)

CellFlatten(x) ==
    LET IsVar(i) == x.c[i].k = "leaf"
        IsCell(i) == x.c[i].k = "registered" /\ x.c[i].cls = "Cell"
        kept == SelectIdx(Len(x.c), LAMBDA i : IsVar(i) \/ IsCell(i))
        pn == SelectIdx(Len(x.c), IsVar)
        cn == SelectIdx(Len(x.c), IsCell)
    IN [children |-> [j \in 1..Len(kept) |-> x.c[kept[j]]],
        meta |-> [param_names |-> [j \in 1..Len(pn) |-> x.keys[pn[j]]],
                  child_names |-> [j \in 1..Len(cn) |-> x.keys[cn[j]]]]]

NoMeta == [param_names |-> <<>>, child_names |-> <<>>]

\* flatten_pytree(x) -> [leaves, treedef]; a child of a treedef is
\* [key, t] (key "" where the source keeps the bare treedef)
RECURSIVE flatten_pytree(_)
flatten_pytree(x) ==
    IF x.k = "registered" /\ x.cls \in PYTREE_REGISTRY
    THEN LET f == CellFlatten(x)
             sub == [i \in 1..Len(f.children) |-> flatten_pytree(f.children[i])]
         IN [leaves |-> Concat([i \in 1..Len(sub) |-> sub[i].leaves]),
             treedef |-> TreeDef(Typ("registered", x.cls, f.meta),
                                 [i \in 1..Len(sub) |->
                                    [key |-> "", t |-> sub[i].treedef]])]
    ELSE IF x.k = "dict"
    THEN LET sub == [i \in 1..Len(x.c) |-> flatten_pytree(x.c[i])]
         IN [leaves |-> Concat([i \in 1..Len(sub) |-> sub[i].leaves]),
             treedef |-> TreeDef(Typ("dict", "dict", [NoMeta EXCEPT !.param_names = x.keys]),
                                 [i \in 1..Len(sub) |->
                                    [key |-> x.keys[i], t |-> sub[i].treedef]])]
    ELSE IF x.k = "seq"
    THEN LET sub == [i \in 1..Len(x.c) |-> flatten_pytree(x.c[i])]
         IN [leaves |-> Concat([i \in 1..Len(sub) |-> sub[i].leaves]),
             treedef |-> TreeDef(Typ("class", x.cls, NoMeta),
                                 [i \in 1..Len(sub) |->
                                    [key |-> "", t |-> sub[i].treedef]])]
    ELSE IF x.k = "dataclass"
    THEN LET sub == [i \in 1..Len(x.c) |-> flatten_pytree(x.c[i])]
         IN [leaves |-> Concat([i \in 1..Len(sub) |-> sub[i].leaves]),
             treedef |-> TreeDef(Typ("dataclass", x.cls, NoMeta),
                                 [i \in 1..Len(sub) |->
                                    [key |-> x.keys[i], t |-> sub[i].treedef]])]
    ELSE [leaves |-> <<x>>, treedef |-> TreeDef(Typ("leaf", "", NoMeta), <<>>)]

\* unflatten of a Cell (nn/base.py): a new Cell, the children attached under
\* the param names first and the child names after
CellUnflatten(children, meta) ==
    Box("registered", "Cell", meta.param_names \o meta.child_names, children)

\* _unflatten(it, treedef) -> [val, pos]: pos is the iterator's position in
\* leaves; a raised exception is the value Raised(..) and ends the call
RECURSIVE unflatten_rec(_, _, _)
RECURSIVE unflatten_children(_, _, _, _, _)

unflatten_children(leaves, pos, children, k, acc) ==
    IF k > Len(children) THEN [val |-> Box("tmp", "", <<>>, acc), pos |-> pos]
    ELSE LET r == unflatten_rec(leaves, pos, children[k].t)
         IN IF r.val.k = "raised" THEN r
            ELSE unflatten_children(leaves, r.pos, children, k + 1,
                                    Append(acc, r.val))

unflatten_rec(leaves, pos, treedef) ==
    LET typ == treedef.typ
        keys == [i \in 1..Len(treedef.children) |-> treedef.children[i].key]
        kids == unflatten_children(leaves, pos, treedef.children, 1, <<>>)
    IN IF typ.tag = "leaf"
       THEN IF pos > Len(leaves)
            THEN [val |-> Raised("StopIteration"), pos |-> pos]
            ELSE [val |-> leaves[pos], pos |-> pos + 1]
       ELSE IF typ.tag = "dict"
       THEN IF kids.val.k = "raised" THEN kids
            ELSE [val |-> Box("dict", "dict", keys, kids.val.c), pos |-> kids.pos]
       ELSE IF typ.tag = "class" /\ typ.cls \in {"list", "tuple"}
       THEN IF kids.val.k = "raised" THEN kids
            ELSE [val |-> Box("seq", typ.cls, <<>>, kids.val.c), pos |-> kids.pos]
       ELSE IF typ.tag = "dataclass"
       THEN IF kids.val.k = "raised" THEN kids
            ELSE [val |-> Box("dataclass", typ.cls, keys, kids.val.c),
                  pos |-> kids.pos]
       ELSE IF typ.tag = "registered" /\ typ.cls \in PYTREE_REGISTRY
       THEN IF kids.val.k = "raised" THEN kids
            ELSE [val |-> CellUnflatten(kids.val.c, typ.meta), pos |-> kids.pos]
       ELSE [val |-> Raised("TypeError"), pos |-> pos]

\* unflatten_pytree(leaves, treedef)
unflatten_pytree(leaves, treedef) == unflatten_rec(leaves, 1, treedef).val

\* ------------------------------------------------------------------------
\* Cell (nn/base.py): parameters() and trainable_parameters() yield the
\* Variables attached to the cell, then those of its sub-cells
\* ------------------------------------------------------------------------
IsCell(x) == x.k = "registered" /\ x.cls = "Cell"

RECURSIVE parameters(_)
parameters(x) ==
    LET own == SelectIdx(Len(x.c), LAMBDA i : x.c[i].k = "leaf")
        sub == SelectIdx(Len(x.c), LAMBDA i : IsCell(x.c[i]))
    IN [j \in 1..Len(own) |-> x.c[own[j]].v]
       \o Concat([j \in 1..Len(sub) |-> parameters(x.c[sub[j]])])

trainable_parameters(h, x) ==
    LET ps == parameters(x)
        tr == SelectIdx(Len(ps), LAMBDA i : h[ps[i]].train)
    IN [j \in 1..Len(tr) |-> ps[tr[j]]]

\* expand_cell(a), with the fallback of line 205
expand_cell(h, a) ==
    IF IsCell(a)
    THEN LET ps == trainable_parameters(h, a)
         IN Box("seq", "list", <<>>, [j \in 1..Len(ps) |-> Leaf(ps[j])])
    ELSE a

\* the arrays a user function reads from its arguments, in argument order
InputLeaves(h, args) ==
    LET of(a) == IF IsCell(a) THEN parameters(a)
                 ELSE LET ls == flatten_pytree(a).leaves
                          nd == SelectIdx(Len(ls), LAMBDA i : h[ls[i].v].nd)
                      IN [j \in 1..Len(nd) |-> ls[nd[j]].v]
    IN Concat([i \in 1..Len(args) |-> of(args[i])])

\* tape(): the finally clause of the context manager leaves TAPE_STACK
\* as it is
tape_exit(stack) == stack

\* lines 212-218: the gradient (or None) of every leaf, in leaf order
RECURSIVE flat_grads(_, _, _, _, _)

\* the default of a leaf without an entry: a new array of zeros
flat_default(m, leaves, gdict, k, acc) ==
    flat_grads(m, leaves, gdict, k + 1, Append(acc, Leaf(m.ret)))

flat_grads(m, leaves, gdict, k, acc) ==
    IF k > Len(leaves) THEN [m EXCEPT !.rets = acc]
    ELSE LET leaf == leaves[k].v
         IN IF is_leaf(m.heap, leaf)
            THEN IF id_leaf(m.heap, leaf) \in DOMAIN gdict
                 THEN flat_grads(m, leaves, gdict, k + 1,
                                 Append(acc, Leaf(gdict[id_leaf(m.heap, leaf)])))
                 ELSE flat_default(Alloc(m, zeros_like(m.heap[leaf]), FALSE),
                                   leaves, gdict, k, acc)
            ELSE flat_grads(m, leaves, gdict, k + 1, Append(acc, Leaf(0)))

\* fun(*args) where fun = grad(...grad(code)), d times; ret is the value
RECURSIVE Call(_, _, _, _)

\* line 130: grads = {_id(out): ones_like(out)}
Seed(m, out) == [m EXCEPT !.grads = (id_leaf(m.heap, out) :> m.ret)]

\* line 153: return out, grads
Return(m, out, t) ==
    IF raised(m) THEN m
    ELSE [m EXCEPT !.ret = out, !.rets = <<m.grads>>,
                   !.fin = Append(@, [tape |-> t, grads |-> m.grads])]

\* lines 128-153, after the with block has been left with value out
backward_pass(m, out) ==
    LET t == active_tape(m.stack)
    IN Return(ReversePass(Seed(Alloc(m, ones_like(m.heap[out]), FALSE), out),
                          Len(m.fin) + 1, t,
                          IF t = 0 THEN 0 ELSE Len(m.stack[t]), 1),
              out, t)

\* the with block is left
backward_exit(m) ==
    IF raised(m) THEN m
    ELSE
    backward_pass([m EXCEPT !.stack = tape_exit(@),
                            !.open = SubSeq(@, 1, Len(@) - 1)],
                  m.ret)

\* _backward(fun, original_args, diff_leaves): ret is out, rets is <<grads>>
backward(m, code, d, args) ==
    backward_exit(Call([m EXCEPT !.stack = Append(@, <<>>),
                                 !.open = Append(@, Len(m.stack) + 1)],
                       code, d, args))

\* line 222: grads_tree[0] if len(args) == 1 else grads_tree
grad_pick(grads_tree, nargs) ==
    IF grads_tree.k = "raised" THEN grads_tree
    ELSE IF nargs = 1 THEN grads_tree.c[1] ELSE grads_tree

grad_return(m, res) ==
    [m EXCEPT !.tree = res, !.ret = IF res.k = "leaf" THEN res.v ELSE 0]

\* lines 212-222, m the state _backward left
grad_tree(m, leaves, treedef, nargs) ==
    grad_return(m, grad_pick(unflatten_pytree(m.rets, treedef), nargs))

\* an exception leaves the call: nothing is returned
propagate(m) == [m EXCEPT !.tree = [k |-> "none"], !.ret = 0, !.rets = <<>>]

grad_flat(m, leaves, treedef, nargs) ==
    IF raised(m) THEN propagate(m)
    ELSE grad_tree(flat_grads(m, leaves, m.rets[1], 1, <<>>), leaves, treedef, nargs)

\* grad(fun)(*args), lines 201-222: tree is the returned value
grad_flatten(m, code, d, args, ft) ==
    grad_flat(backward(m, code, d, args), ft.leaves, ft.treedef, Len(args))

grad_wrapped(m, code, d, args) ==
    grad_flatten(m, code, d, args,
                 flatten_pytree(Box("seq", "list", <<>>,
                     [i \in 1..Len(args) |-> expand_cell(m.heap, args[i])])))

Call(m, code, d, args) ==
    IF d = 0 THEN RunCode(m, code, InputLeaves(m.heap, args), 1)
    ELSE grad_wrapped(m, code, d - 1, args)

\* ------------------------------------------------------------------------
\* value_and_grad(fun)(*args), lines 264-285: ret is out, tree the gradients
\* ------------------------------------------------------------------------
value_and_grad_return(m, out, res) ==
    [m EXCEPT !.tree = res, !.ret = IF res.k = "raised" THEN 0 ELSE out]

\* the gradients returned whole, whatever the number of arguments
value_and_grad_whole(m, out, treedef, nargs) ==
    value_and_grad_return(m, out, unflatten_pytree(m.rets, treedef))

\* lines 283-285
value_and_grad_tree(m, out, treedef, nargs) ==
    value_and_grad_return(m, out,
                          grad_pick(unflatten_pytree(m.rets, treedef), nargs))

\* lines 275-281, m the state _backward left (ret is out)
value_and_grad_flat(m, leaves, treedef, nargs) ==
    IF raised(m) THEN propagate(m)
    ELSE value_and_grad_tree(flat_grads(m, leaves, m.rets[1], 1, <<>>), m.ret,
                             treedef, nargs)

value_and_grad_flatten(m, code, args, ft) ==
    value_and_grad_flat(backward(m, code, 0, args), ft.leaves, ft.treedef,
                        Len(args))

value_and_grad_wrapped(m, code, args) ==
    value_and_grad_flatten(m, code, args,
        flatten_pytree(Box("seq", "list", <<>>,
            [i \in 1..Len(args) |-> expand_cell(m.heap, args[i])])))

\* ------------------------------------------------------------------------
\* The user's script: arrays, functions and argument lists
\* ------------------------------------------------------------------------
UnaryFns == {"sq", "neg", "dbl"}

\* the instruction applying unary function f to environment slot i
Ins(f, i) ==
    CASE f = "sq"  -> <<"multiply", i, i>>
      [] f = "neg" -> <<"negative", i, 0>>
      [] f = "dbl" -> <<"add", i, i>>

\* z = h(g(f(x)))
Chain(f, g, h) == <<Ins(f, 1), Ins(g, 2), Ins(h, 3)>>

\* y = f(x) + g(x)
Fan(f, g) == <<Ins(f, 1), Ins(g, 1), <<"add", 2, 3>>>>

Square == <<<<"multiply", 1, 1>>>>

Cube == <<<<"multiply", 1, 1>>, <<"multiply", 2, 1>>>>

Product == <<<<"multiply", 1, 2>>>>

Sum2 == <<<<"add", 1, 2>>>>

Custom == <<<<"sq1", 1, 0>>>>

\* the number of array arguments a function reads
Arity(code) == IF code \in {Product, Sum2} THEN 2 ELSE 1

\* heap slots of the script's arrays: x a Variable, y an NDarray, w a frozen
\* Variable, c a Python float
XArrs == {Arr(<<>>, <<-3>>), Arr(<<2>>, <<1, -2>>), Arr(<<1>>, <<3>>)}

YArrs == {Arr(<<2>>, <<2, 3>>), Arr(<<1>>, <<-1>>)}

Obj(a, nd, train, np) ==
    [shape |-> a.shape, data |-> a.data, nd |-> nd, train |-> train, np |-> np]

Names(n) == SubSeq(<<"a", "b", "c">>, 1, n)

ArgLists ==
    { <<Leaf(1)>>, <<Leaf(1), Leaf(2)>>, <<Leaf(2), Leaf(1)>>, <<Leaf(1), Leaf(1)>>,
      <<Leaf(4), Leaf(1), Leaf(3)>>,
      <<Box("seq", "list", <<>>, <<Leaf(1), Leaf(3)>>)>>,
      <<Box("seq", "tuple", <<>>, <<>>), Leaf(2)>>,
      <<Box("dict", "dict", Names(2),
            <<Leaf(2), Box("seq", "tuple", <<>>, <<Leaf(4), Leaf(1)>>)>>)>>,
      <<Box("dataclass", "Pair", Names(2), <<Leaf(1), Leaf(2)>>), Leaf(3)>>,
      <<Box("registered", "Cell", Names(2),
            <<Leaf(1), Box("registered", "Cell", Names(2), <<Leaf(3), Leaf(2)>>)>>),
        Leaf(2)>> }

Jobs ==
    { [code |-> Chain(f, g, h), d |-> 1, args |-> <<Leaf(1)>>] : f, g, h \in UnaryFns }
    \cup { [code |-> Fan(f, g), d |-> 1, args |-> <<Leaf(1)>>] : f, g \in UnaryFns }
    \cup { [code |-> c, d |-> 1, args |-> a] : c \in {Square, Product, Sum2, Custom}, a \in ArgLists }
    \cup { [code |-> c, d |-> 2, args |-> <<Leaf(1)>>] : c \in {Square, Cube} }

NoTree == [k |-> "none"]

\* the JIT layer as the import of the package leaves it: _JIT_TRACING,
\* _ACTIVE_RECORDER (0: None), every JITRecorder and StaticGraph created so
\* far, the cache of each jitted function (keyed by <<function, key>>);
\* frozen notes the <<function, argument types>> a graph was frozen for
NoJit ==
    [tracing |-> FALSE, active |-> 0, recs |-> <<>>, graphs |-> <<>>,
     cache |-> <<>>, frozen |-> {}]

Last(op) ==
    [op |-> op, prim |-> "", a |-> 0, b |-> 0, exc |-> FALSE, ret |-> 0,
     tree |-> NoTree, log |-> <<>>, fin |-> <<>>, job |-> <<>>, rec0 |-> TRUE,
     heap0 |-> 0, added |-> 0, scope |-> 0, depth0 |-> 0,
     fn |-> "", args |-> <<>>, err |-> "", calls |-> <<>>]

OpenTapes == 
    LET idx == SelectIdx(Len(frames), LAMBDA i : frames[i].kind = "tape")
    IN [j \in 1..Len(idx) |-> frames[idx[j]].tape]

Cur == Machine(heap, TAPE_STACK, RECORDING, OpenTapes)

RECURSIVE CountNodes(_)
CountNodes(stack) == IF stack = <<>> THEN 0 ELSE Len(Head(stack)) + CountNodes(Tail(stack))

Init ==
    /\ \E xa \in XArrs, ya \in YArrs :
          heap = << Obj(xa, TRUE, TRUE, 1), Obj(ya, TRUE, TRUE, 2),
                    Obj(Arr(<<>>, <<7>>), TRUE, FALSE, 3),
                    Obj(Arr(<<>>, <<4>>), FALSE, FALSE, 4) >>
    /\ TAPE_STACK = <<>>
    /\ RECORDING = TRUE
    /\ frames = <<>>
    /\ last = Last("init")
    /\ steps = 0
    /\ tin = NoTree
    /\ insts = <<>>
    /\ threads = <<>>
    /\ tout = NoTree
    /\ jit = NoJit

\* with tape(): -- entering the block
TapeEnter ==
    /\ steps < MaxSteps
    /\ TAPE_STACK' = Append(TAPE_STACK, <<>>)
    /\ frames' = Append(frames, [kind |-> "tape", prev |-> RECORDING,
                                 tape |-> Len(TAPE_STACK) + 1])
    /\ last' = [Last("tape_enter") EXCEPT !.scope = Len(TAPE_STACK) + 1,
                                          !.depth0 = Len(TAPE_STACK)]
    /\ steps' = steps + 1
    /\ UNCHANGED <<heap, RECORDING, tin, tout, jit, insts, threads>>

\* leaving the innermost block, a tape() block, normally or by an exception
TapeExit ==
    /\ steps < MaxSteps
    /\ frames # <<>> /\ frames[Len(frames)].kind = "tape"
    /\ \E exc \in BOOLEAN :
          last' = [Last("tape_exit") EXCEPT !.exc = exc,
                      !.scope = frames[Len(frames)].tape,
                      !.depth0 = frames[Len(frames)].tape - 1]
    /\ TAPE_STACK' = tape_exit(TAPE_STACK)
    /\ frames' = SubSeq(frames, 1, Len(frames) - 1)
    /\ steps' = steps + 1
    /\ UNCHANGED <<heap, RECORDING, tin, tout, jit, insts, threads>>

\* with no_record(): -- entering the block
NoRecordEnter ==
    /\ steps < MaxSteps
    /\ frames' = Append(frames, [kind |-> "no_record", prev |-> RECORDING, tape |-> 0])
    /\ RECORDING' = FALSE
    /\ last' = Last("no_record_enter")
    /\ steps' = steps + 1
    /\ UNCHANGED <<heap, TAPE_STACK, tin, tout, jit, insts, threads>>

restore_true(prev) == TRUE

\* the finally clause of no_record: _RECORDING = prev
restore(prev) == prev

\* leaving the innermost block, a no_record() block
NoRecordExit ==
    /\ steps < MaxSteps
    /\ frames # <<>> /\ frames[Len(frames)].kind = "no_record"
    /\ \E exc \in BOOLEAN :
          last' = [Last("no_record_exit") EXCEPT !.exc = exc,
                      !.rec0 = frames[Len(frames)].prev]
    /\ RECORDING' = restore(frames[Len(frames)].prev)
    /\ frames' = SubSeq(frames, 1, Len(frames) - 1)
    /\ steps' = steps + 1
    /\ UNCHANGED <<heap, TAPE_STACK, tin, tout, jit, insts, threads>>

Small(a) == \A i \in 1..Len(heap[a].data) : heap[a].data[i] \in -MaxVal..MaxVal

Operands == {1} \cup (IF last.ret # 0 /\ Small(last.ret) THEN {last.ret} ELSE {})

\* a call of a wrapped primitive by the script
CallPrim ==
    /\ steps < MaxSteps
    /\ \E op \in {"multiply", "negative", "sq1"}, a \in Operands, b \in {2} :
          /\ \E m \in {MakeOP_call(Cur, op, a, IF op \in Unary THEN 0 ELSE b)} :
                /\ heap' = m.heap
                /\ TAPE_STACK' = m.stack
                /\ RECORDING' = m.rec
                /\ last' = [Last("prim") EXCEPT !.prim = op, !.a = a, !.b = b,
                               !.ret = m.ret, !.rec0 = RECORDING,
                               !.heap0 = Len(heap),
                               !.added = CountNodes(m.stack) - CountNodes(TAPE_STACK)]
    /\ steps' = steps + 1
    /\ UNCHANGED <<frames, tin, tout, jit, insts, threads>>

\* a call grad(fun)(*args) or grad(grad(fun))(*args) by the script
CallGrad ==
    /\ steps + GradCost <= MaxSteps
    /\ Len(heap) <= MaxHeap
    /\ \E job \in Jobs :
          /\ Arity(job.code) <= Len(InputLeaves(heap, job.args))
          /\ \E m \in {Call(Cur, job.code, job.d, job.args)} :
                /\ heap' = m.heap
                /\ TAPE_STACK' = m.stack
                /\ RECORDING' = m.rec
                /\ last' = [Last("grad") EXCEPT !.job = job, !.tree = m.tree,
                               !.log = m.log, !.fin = m.fin, !.rec0 = RECORDING,
                               !.heap0 = Len(heap), !.depth0 = Len(TAPE_STACK),
                               !.added = CountNodes(m.stack) - CountNodes(TAPE_STACK)]
    /\ steps' = steps + GradCost
    /\ UNCHANGED <<frames, tin, tout, jit, insts, threads>>

Next ==
    \/ TapeEnter
    \/ TapeExit
    \/ NoRecordEnter
    \/ NoRecordExit
    \/ CallPrim
    \/ CallGrad

Spec == Init /\ [][Next]_vars

\* a call value_and_grad(fun)(*args) by the script
CallValueAndGrad ==
    /\ steps + GradCost <= MaxSteps
    /\ Len(heap) <= MaxHeap
    /\ \E job \in Jobs :
          /\ job.d = 1
          /\ Arity(job.code) <= Len(InputLeaves(heap, job.args))
          /\ \E m \in {value_and_grad_wrapped(Cur, job.code, job.args)} :
                /\ heap' = m.heap
                /\ TAPE_STACK' = m.stack
                /\ RECORDING' = m.rec
                /\ last' = [Last("value_and_grad") EXCEPT !.job = job,
                               !.tree = m.tree, !.ret = m.ret,
                               !.log = m.log, !.fin = m.fin, !.rec0 = RECORDING,
                               !.heap0 = Len(heap), !.depth0 = Len(TAPE_STACK),
                               !.added = CountNodes(m.stack) - CountNodes(TAPE_STACK)]
    /\ steps' = steps + GradCost
    /\ UNCHANGED <<frames, tin, tout, jit, insts, threads>>

\* the script that calls value_and_grad, inside or outside tape() and
\* no_record() blocks and after primitive calls
ValueNext ==
    \/ TapeEnter
    \/ NoRecordEnter
    \/ CallPrim
    \/ CallValueAndGrad

SpecValue == Init /\ [][ValueNext]_vars

\* the objects the script holds: the heap before the last grad call
Held == 1..(IF last.op = "grad_pair" THEN last.heap0 ELSE Len(heap))

\* NDarray(x) of an NDarray x: as_ndarray returns lib.asarray(x.np), the
\* buffer of x itself; NDarray(x.np.copy()): a new buffer with equal entries
NDarray(h, x, copy) ==
    Obj(h[x], TRUE, TRUE, IF copy THEN Len(h) + 1 ELSE h[x].np)

\* the script makes another NDarray from one it holds
CallNDarray ==
    /\ steps < MaxSteps
    /\ Len(heap) <= MaxHeap
    /\ \E x \in {y \in Held : is_leaf(heap, y)}, copy \in BOOLEAN :
          /\ heap' = Append(heap, NDarray(heap, x, copy))
          /\ last' = [Last("ndarray") EXCEPT !.a = x, !.ret = Len(heap) + 1]
    /\ steps' = steps + 1
    /\ UNCHANGED <<TAPE_STACK, RECORDING, frames, tin, tout, jit,
                   insts, threads>>

\* grad(fun)(a, b) for two leaves the script holds
CallGradPair ==
    /\ steps + GradCost <= MaxSteps
    /\ Len(heap) <= MaxHeap
    /\ \E code \in {Product, Sum2} :
       \E a \in {y \in Held : is_leaf(heap, y)}, b \in {y \in Held : is_leaf(heap, y)} :
       \E m \in {Call(Cur, code, 1, <<Leaf(a), Leaf(b)>>)} :
          /\ heap' = m.heap
          /\ TAPE_STACK' = m.stack
          /\ RECORDING' = m.rec
          /\ last' = [Last("grad_pair") EXCEPT
                         !.job = [code |-> code, d |-> 1, args |-> <<Leaf(a), Leaf(b)>>],
                         !.a = a, !.b = b, !.tree = m.tree, !.log = m.log,
                         !.fin = m.fin, !.rec0 = RECORDING, !.heap0 = Len(heap),
                         !.depth0 = Len(TAPE_STACK)]
    /\ steps' = steps + GradCost
    /\ UNCHANGED <<frames, tin, tout, jit, insts, threads>>

AliasNext ==
    \/ CallNDarray
    \/ CallGradPair

SpecAlias == Init /\ [][AliasNext]_vars

\* ------------------------------------------------------------------------
\* The script of where: heap[1] is a condition, heap[2] and heap[3] the
\* arrays chosen from
\* ------------------------------------------------------------------------
\* z = where(c, x, y)
Where == <<<<"where", 1, 2, 3>>>>

\* z = where(c, x, y) + c
WherePlus == <<<<"where", 1, 2, 3>>, <<"add", 4, 1>>>>

\* z = where(c, x * x, y)
WhereSquare == <<<<"multiply", 2, 2>>, <<"where", 1, 4, 3>>>>

Conds == {Arr(<<2>>, <<1, 0>>), Arr(<<2>>, <<0, 0>>), Arr(<<>>, <<1>>),
          Arr(<<1>>, <<0>>), Arr(<<2, 2>>, <<1, 0, 0, 1>>)}

WhereInit ==
    /\ \E ca \in Conds, xa \in XArrs, ya \in YArrs :
          heap = << Obj(ca, TRUE, TRUE, 1), Obj(xa, TRUE, TRUE, 2),
                    Obj(ya, TRUE, TRUE, 3) >>
    /\ TAPE_STACK = <<>>
    /\ RECORDING = TRUE
    /\ frames = <<>>
    /\ last = Last("init")
    /\ steps = 0
    /\ tin = NoTree
    /\ insts = <<>>
    /\ threads = <<>>
    /\ tout = NoTree
    /\ jit = NoJit

\* where(c, x, y) called by the script
CallWhere ==
    /\ steps < MaxSteps
    /\ \E m \in {MakeOP_call(Cur, "where", 1, <<2, 3>>)} :
          /\ heap' = m.heap
          /\ TAPE_STACK' = m.stack
          /\ RECORDING' = m.rec
          /\ last' = [Last("prim") EXCEPT !.prim = "where", !.a = 1, !.ret = m.ret,
                         !.rec0 = RECORDING, !.heap0 = Len(heap),
                         !.added = CountNodes(m.stack) - CountNodes(TAPE_STACK)]
    /\ steps' = steps + 1
    /\ UNCHANGED <<frames, tin, tout, jit, insts, threads>>

\* grad(fun)(c, x, y) for a function that calls where
CallGradWhere ==
    /\ steps + GradCost <= MaxSteps
    /\ \E code \in {Where, WherePlus, WhereSquare} :
       \E m \in {Call(Cur, code, 1, <<Leaf(1), Leaf(2), Leaf(3)>>)} :
          /\ heap' = m.heap
          /\ TAPE_STACK' = m.stack
          /\ RECORDING' = m.rec
          /\ last' = [Last("grad_where") EXCEPT
                         !.job = [code |-> code, d |-> 1,
                                  args |-> <<Leaf(1), Leaf(2), Leaf(3)>>],
                         !.tree = m.tree, !.log = m.log, !.fin = m.fin,
                         !.rec0 = RECORDING, !.heap0 = Len(heap),
                         !.depth0 = Len(TAPE_STACK)]
    /\ steps' = steps + GradCost
    /\ UNCHANGED <<frames, tin, tout, jit, insts, threads>>

WhereNext ==
    \/ TapeEnter
    \/ CallWhere
    \/ CallGradWhere

SpecWhere == WhereInit /\ [][WhereNext]_vars

\* ------------------------------------------------------------------------
\* The script with a custom function whose grad_fn raises
\* ------------------------------------------------------------------------
\* y = f(x) + boom(x)
BoomFan(f) == <<Ins(f, 1), <<"boom", 1, 0>>, <<"add", 2, 3>>>>

\* y = h(boom(f(x)))
BoomChain(f, h) == <<Ins(f, 1), <<"boom", 2, 0>>, Ins(h, 3)>>

\* grad(fun)(x) or value_and_grad(fun)(x) for such a function
CallGradRaise ==
    /\ steps + GradCost <= MaxSteps
    /\ Len(heap) <= MaxHeap
    /\ \E code \in {BoomFan(f) : f \in UnaryFns}
                   \cup {BoomChain(f, h) : f, h \in UnaryFns} :
       \E m \in {Call(Cur, code, 1, <<Leaf(1)>>),
                 value_and_grad_wrapped(Cur, code, <<Leaf(1)>>)} :
          /\ heap' = m.heap
          /\ TAPE_STACK' = m.stack
          /\ RECORDING' = m.rec
          /\ last' = [Last("grad_raise") EXCEPT
                         !.job = [code |-> code, d |-> 1, args |-> <<Leaf(1)>>],
                         !.tree = m.tree, !.ret = m.ret, !.log = m.log,
                         !.fin = m.fin, !.err = m.err, !.rec0 = RECORDING,
                         !.heap0 = Len(heap), !.depth0 = Len(TAPE_STACK)]
    /\ steps' = steps + GradCost
    /\ UNCHANGED <<frames, tin, tout, jit, insts, threads>>

RaiseNext ==
    \/ TapeEnter
    \/ NoRecordEnter
    \/ CallPrim
    \/ CallGradRaise

SpecRaise == Init /\ [][RaiseNext]_vars

\* ------------------------------------------------------------------------
\* A script that wraps forwards of its own and calls the wrapped primitives:
\* insts holds the MakeOP objects made so far
\* ------------------------------------------------------------------------
\* p = MakeOP(fun)
Wrap ==
    /\ steps < MaxSteps
    /\ \E fun \in Returns :
       \E p \in {MakeOP_init(fun)} :
          /\ insts' = IF p.err = "" THEN Append(insts, p) ELSE insts
          /\ last' = [Last("wrap") EXCEPT !.fn = fun, !.err = p.err]
    /\ steps' = steps + 1
    /\ UNCHANGED <<heap, TAPE_STACK, RECORDING, frames, tin, tout, jit, threads>>

\* p(x) for a MakeOP object made before
CallWrapped ==
    /\ steps < MaxSteps
    /\ \E i \in 1..Len(insts) :
       \E m \in {MakeOP_user(Cur, insts[i].fun, 1)} :
          /\ heap' = m.heap
          /\ TAPE_STACK' = m.stack
          /\ RECORDING' = m.rec
          /\ last' = [Last("call_wrapped") EXCEPT !.fn = insts[i].fun, !.a = 1,
                         !.ret = m.ret, !.err = m.err, !.rec0 = RECORDING,
                         !.heap0 = Len(heap),
                         !.added = CountNodes(m.stack) - CountNodes(TAPE_STACK)]
    /\ steps' = steps + 1
    /\ UNCHANGED <<frames, tin, tout, jit, insts, threads>>

WrapNext ==
    \/ TapeEnter
    \/ NoRecordEnter
    \/ Wrap
    \/ CallWrapped

SpecWrap == Init /\ [][WrapNext]_vars

\* ------------------------------------------------------------------------
\* A script that makes Op instances and applies them: insts holds the
\* instances made so far
\* ------------------------------------------------------------------------
\* op = MyOp()
NewOp ==
    /\ steps < MaxSteps
    /\ insts' = Append(insts, Op_init)
    /\ last' = [Last("new_op") EXCEPT !.scope = Len(insts) + 1]
    /\ steps' = steps + 1
    /\ UNCHANGED <<heap, TAPE_STACK, RECORDING, frames, tin, tout, jit, threads>>

\* op.add_parents(p)
AddParents ==
    /\ steps < MaxSteps
    /\ \E i \in 1..Len(insts), p \in {1, 2} :
          /\ insts' = [insts EXCEPT ![i] = add_parents(@, <<p>>)]
          /\ last' = [Last("add_parents") EXCEPT !.scope = i, !.a = p]
    /\ steps' = steps + 1
    /\ UNCHANGED <<heap, TAPE_STACK, RECORDING, frames, tin, tout, jit, threads>>

\* op.apply(a)
Apply ==
    /\ steps < MaxSteps
    /\ \E i \in 1..Len(insts), a \in {1, 2} :
       \E m \in {Op_apply(Cur, insts[i], <<a>>)} :
          /\ heap' = m.heap
          /\ TAPE_STACK' = m.stack
          /\ RECORDING' = m.rec
          /\ insts' = [insts EXCEPT ![i] = fun_store(@, <<a>>)]
          /\ last' = [Last("apply") EXCEPT !.scope = i, !.a = a,
                         !.ret = m.ret, !.rec0 = RECORDING, !.heap0 = Len(heap),
                         !.added = CountNodes(m.stack) - CountNodes(TAPE_STACK)]
    /\ steps' = steps + 1
    /\ UNCHANGED <<frames, tin, tout, jit, threads>>

OpNext ==
    \/ TapeEnter
    \/ NoRecordEnter
    \/ NewOp
    \/ AddParents
    \/ Apply

SpecOp == Init /\ [][OpNext]_vars

\* ------------------------------------------------------------------------
\* A script that calls fused functions, directly and under grad
\* ------------------------------------------------------------------------
FuseCodes ==
    {Square, Cube, Product} \cup {Chain(f, g, h) : f, g, h \in UnaryFns}

\* y = fuse(fun)(x), or fuse(fun)(x, y) for a function of two arguments
CallFused ==
    /\ steps < MaxSteps
    /\ Len(heap) <= MaxHeap
    /\ \E code \in FuseCodes :
       \E args \in {IF Arity(code) = 2 THEN <<1, 2>> ELSE <<1>>} :
       \E m \in {fuse_call(Cur, code, args)} :
          /\ heap' = m.heap
          /\ TAPE_STACK' = m.stack
          /\ RECORDING' = m.rec
          /\ last' = [Last("fused") EXCEPT !.job = [code |-> code, d |-> 0,
                                                    args |-> args],
                         !.args = args, !.ret = m.ret, !.rec0 = RECORDING,
                         !.heap0 = Len(heap), !.depth0 = Len(TAPE_STACK),
                         !.added = CountNodes(m.stack) - CountNodes(TAPE_STACK)]
    /\ steps' = steps + 1
    /\ UNCHANGED <<frames, tin, tout, jit, insts, threads>>

\* grad(fuse(fun))(x) for fun = h(g(f(x)))
CallGradFused ==
    /\ steps + GradCost <= MaxSteps
    /\ Len(heap) <= MaxHeap
    /\ \E f, g, h \in UnaryFns :
       \E m \in {Call(Cur, <<<<"fuse", 1, Chain(f, g, h)>>>>, 1, <<Leaf(1)>>)} :
          /\ heap' = m.heap
          /\ TAPE_STACK' = m.stack
          /\ RECORDING' = m.rec
          /\ last' = [Last("grad_fused") EXCEPT
                         !.job = [code |-> Chain(f, g, h), d |-> 1,
                                  args |-> <<Leaf(1)>>],
                         !.fn = <<f, g, h>>,
                         !.tree = m.tree, !.ret = m.ret, !.log = m.log,
                         !.fin = m.fin, !.err = m.err, !.rec0 = RECORDING,
                         !.heap0 = Len(heap), !.depth0 = Len(TAPE_STACK)]
    /\ steps' = steps + GradCost
    /\ UNCHANGED <<frames, tin, tout, jit, insts, threads>>

FuseNext ==
    \/ TapeEnter
    \/ NoRecordEnter
    \/ CallFused
    \/ CallGradFused

SpecFuse == Init /\ [][FuseNext]_vars

\* ------------------------------------------------------------------------
\* Two threads of one interpreter.  _RECORDING and TAPE_STACK are module
\* globals, shared by the threads; a thread may be switched out between
\* any two statements.  Each thread calls negative(x), or grad(negative)(x);
\* threads[i] holds the locals of thread i:
\*   pc       where the thread stands
\*   prev     the local prev of MakeOP.__call__
\*   pushed   the tape its tape() block pushed (0: none)
\*   t, flag  active_tape() and _RECORDING as read at line 192-193, top the
\*            depth of TAPE_STACK at that moment
\*   appended the tapes it appended a Node to, each with top
\*   records  tape_records of _backward, rtop the depth when it was read
\* ------------------------------------------------------------------------
Thread ==
    [pc |-> "idle", job |-> "", prev |-> TRUE, pushed |-> 0, t |-> 0,
     flag |-> TRUE, top |-> 0, appended |-> <<>>, records |-> 0, rtop |-> 0,
     out |-> 0, log |-> <<>>, runs |-> 0]

\* a stack of its own for every thread: the tape the thread pushed
thread_tape_own(stack, th) == th.pushed

\* active_tape() in thread th: TAPE_STACK is one list for all threads
thread_tape(stack, th) == active_tape(stack)

ThreadInit ==
    /\ heap = << Obj(Arr(<<2>>, <<1, -2>>), TRUE, TRUE, 1) >>
    /\ TAPE_STACK = <<>>
    /\ RECORDING = TRUE
    /\ frames = <<>>
    /\ last = Last("init")
    /\ steps = 0
    /\ tin = NoTree
    /\ insts = <<>>
    /\ threads = <<Thread, Thread>>
    /\ tout = NoTree
    /\ jit = NoJit

\* _backward line 125, with tape(): TAPE_STACK.append([])
T_Grad ==
    \E i \in 1..Len(threads) :
       /\ threads[i].pc = "idle" /\ threads[i].runs < MaxRuns
       /\ TAPE_STACK' = Append(TAPE_STACK, <<>>)
       /\ threads' = [threads EXCEPT ![i] = [Thread EXCEPT !.pc = "call",
                          !.job = "grad", !.pushed = Len(TAPE_STACK) + 1,
                          !.runs = threads[i].runs]]
       /\ UNCHANGED <<heap, RECORDING, frames, last, steps, tin, tout, jit, insts>>

\* MakeOP.__call__ line 160: prev = _RECORDING
T_Save ==
    \E i \in 1..Len(threads) :
       /\ \/ threads[i].pc = "call"
          \/ threads[i].pc = "idle" /\ threads[i].runs < MaxRuns
       /\ threads' = [threads EXCEPT ![i] =
                         [(IF threads[i].pc = "idle"
                           THEN [Thread EXCEPT !.job = "prim",
                                               !.runs = threads[i].runs]
                           ELSE threads[i])
                          EXCEPT !.pc = "saved", !.prev = RECORDING]]
       /\ UNCHANGED <<heap, TAPE_STACK, RECORDING, frames, last, steps, tin, tout,
                      jit, insts>>

\* line 161: _RECORDING = False
T_Suspend ==
    \E i \in 1..Len(threads) :
       /\ threads[i].pc = "saved"
       /\ RECORDING' = Suspend(threads[i].prev)
       /\ threads' = [threads EXCEPT ![i].pc = "suspended"]
       /\ UNCHANGED <<heap, TAPE_STACK, frames, last, steps, tin, tout, jit, insts>>

\* lines 164-186: the forward and the checks of its output
T_Forward ==
    \E i \in 1..Len(threads) :
       /\ threads[i].pc = "suspended"
       /\ \E m \in {Forward(Cur, "negative", 1, 0)} :
             /\ heap' = m.heap
             /\ threads' = [threads EXCEPT ![i].pc = "finally", ![i].out = m.ret]
       /\ UNCHANGED <<TAPE_STACK, RECORDING, frames, last, steps, tin, tout, jit,
                      insts>>

\* line 189, finally: _RECORDING = prev
T_Restore ==
    \E i \in 1..Len(threads) :
       /\ threads[i].pc = "finally"
       /\ RECORDING' = threads[i].prev
       /\ threads' = [threads EXCEPT ![i].pc = "restored"]
       /\ UNCHANGED <<heap, TAPE_STACK, frames, last, steps, tin, tout, jit, insts>>

\* lines 192-193: t = active_tape(); if t is not None and _RECORDING
T_Active ==
    \E i \in 1..Len(threads) :
       /\ threads[i].pc = "restored"
       /\ threads' = [threads EXCEPT ![i].pc = "append",
                          ![i].t = thread_tape(TAPE_STACK, threads[i]),
                          ![i].flag = RECORDING,
                          ![i].top = Len(TAPE_STACK)]
       /\ UNCHANGED <<heap, TAPE_STACK, RECORDING, frames, last, steps, tin, tout,
                      jit, insts>>

\* line 194: t.append(Node(out, parents, grad_fn)), and the return
T_Append ==
    \E i \in 1..Len(threads) :
       /\ threads[i].pc = "append"
       /\ IF threads[i].t # 0 /\ threads[i].flag
          THEN /\ TAPE_STACK' = [TAPE_STACK EXCEPT ![threads[i].t] =
                                    Append(@, Node(threads[i].out, <<1>>,
                                                   "negative", 0))]
               /\ threads' = [threads EXCEPT
                      ![i].pc = IF threads[i].job = "grad" THEN "out" ELSE "idle",
                      ![i].runs = IF threads[i].job = "grad" THEN @ ELSE @ + 1,
                      ![i].appended = Append(@, [tape |-> threads[i].t,
                                                 top |-> threads[i].top])]
          ELSE /\ TAPE_STACK' = TAPE_STACK
               /\ threads' = [threads EXCEPT
                      ![i].pc = IF threads[i].job = "grad" THEN "out" ELSE "idle",
                      ![i].runs = IF threads[i].job = "grad" THEN @ ELSE @ + 1]
       /\ UNCHANGED <<heap, RECORDING, frames, last, steps, tin, tout, jit, insts>>

\* _backward line 128: tape_records = TAPE_STACK[-1] if TAPE_STACK else []
T_Records ==
    \E i \in 1..Len(threads) :
       /\ threads[i].pc = "out"
       /\ threads' = [threads EXCEPT ![i].pc = "reverse",
                          ![i].records = thread_tape(TAPE_STACK, threads[i]),
                          ![i].rtop = Len(TAPE_STACK)]
       /\ UNCHANGED <<heap, TAPE_STACK, RECORDING, frames, last, steps, tin, tout,
                      jit, insts>>

\* _backward lines 130-153: the reverse pass over tape_records
T_Reverse ==
    \E i \in 1..Len(threads) :
       /\ threads[i].pc = "reverse"
       /\ \E m \in {ReversePass(
                        Seed(Alloc(Cur, ones_like(heap[threads[i].out]), FALSE),
                             threads[i].out),
                        i, threads[i].records,
                        IF threads[i].records = 0 THEN 0
                        ELSE Len(TAPE_STACK[threads[i].records]), 1)} :
             /\ heap' = m.heap
             /\ TAPE_STACK' = m.stack
             /\ RECORDING' = m.rec
             /\ threads' = [threads EXCEPT ![i].pc = "idle", ![i].runs = @ + 1,
                                ![i].log = m.log]
       /\ UNCHANGED <<frames, last, steps, tin, tout, jit, insts>>

ThreadNext ==
    \/ T_Grad
    \/ T_Save
    \/ T_Suspend
    \/ T_Forward
    \/ T_Restore
    \/ T_Active
    \/ T_Append
    \/ T_Records
    \/ T_Reverse

SpecThreads == ThreadInit /\ [][ThreadNext]_vars

\* ------------------------------------------------------------------------
\* Functions with a dead branch: u = f(x); v = g(x), never used; y = h(u).
\* g is a unary function, or boom, whose grad_fn raises when it is called
\* ------------------------------------------------------------------------
DeadBranch(f, g, h) ==
    <<Ins(f, 1), IF g = "boom" THEN <<"boom", 1, 0>> ELSE Ins(g, 1), Ins(h, 2)>>

CallGradDead ==
    /\ steps + GradCost <= MaxSteps
    /\ Len(heap) <= MaxHeap
    /\ \E f, h \in UnaryFns, g \in UnaryFns \cup {"boom"} :
       \E m \in {Call(Cur, DeadBranch(f, g, h), 1, <<Leaf(1)>>)} :
          /\ heap' = m.heap
          /\ TAPE_STACK' = m.stack
          /\ RECORDING' = m.rec
          /\ last' = [Last("grad_dead") EXCEPT
                         !.job = [code |-> DeadBranch(f, g, h), d |-> 1,
                                  args |-> <<Leaf(1)>>],
                         !.fn = <<f, g, h>>,
                         !.tree = m.tree, !.ret = m.ret, !.log = m.log,
                         !.fin = m.fin, !.err = m.err, !.rec0 = RECORDING,
                         !.heap0 = Len(heap), !.depth0 = Len(TAPE_STACK)]
    /\ steps' = steps + GradCost
    /\ UNCHANGED <<frames, tin, tout, jit, insts, threads>>

DeadNext ==
    \/ TapeEnter
    \/ NoRecordEnter
    \/ CallPrim
    \/ CallGradDead

SpecDead == Init /\ [][DeadNext]_vars

\* ------------------------------------------------------------------------
\* The codec on its own: a value is flattened, then rebuilt
\* ------------------------------------------------------------------------
Kinds ==
    { <<"seq", "list">>, <<"seq", "tuple">>, <<"seq", "Parameter">>,
      <<"seq", "Point">>, <<"dict", "dict">>, <<"dict", "OrderedDict">>,
      <<"dataclass", "Pair">>, <<"registered", "Cell">> }

WrapKinds ==
    { <<"seq", "list">>, <<"dict", "dict">>, <<"dataclass", "Pair">>,
      <<"registered", "Cell">> }

Mk(kind, cs) ==
    Box(kind[1], kind[2], IF kind[1] = "seq" THEN <<>> ELSE Names(Len(cs)), cs)

LeafObjs == {Leaf(1), Leaf(2)}

\* the values of nesting depth d
RECURSIVE TreesAt(_)
TreesAt(d) ==
    IF d = 0 THEN LeafObjs
    ELSE IF d = 1
    THEN { Mk(kd, cs) : kd \in Kinds,
                        cs \in {<<>>} \cup { <<l>> : l \in LeafObjs }
                                      \cup { <<l1, l2>> : l1, l2 \in LeafObjs } }
    ELSE { Mk(kd, cs) : kd \in WrapKinds,
                        cs \in { <<x>> : x \in TreesAt(d - 1) }
                               \cup { <<Leaf(1), x>> : x \in TreesAt(d - 1) } }

Trees == UNION { TreesAt(d) : d \in 0..MaxDepth }

TreeInit ==
    /\ tin \in Trees
    /\ insts = <<>>
    /\ threads = <<>>
    /\ tout = [phase |-> "none", leaves |-> <<>>, treedef |-> NoTree, value |-> NoTree]
    /\ jit = NoJit
    /\ heap = <<>>
    /\ TAPE_STACK = <<>>
    /\ RECORDING = TRUE
    /\ frames = <<>>
    /\ last = Last("init")
    /\ steps = 0

\* leaves, treedef = flatten_pytree(x)
TreeFlatten ==
    /\ tout.phase = "none"
    /\ LET r == flatten_pytree(tin)
       IN tout' = [tout EXCEPT !.phase = "flat", !.leaves = r.leaves,
                               !.treedef = r.treedef]
    /\ UNCHANGED <<heap, TAPE_STACK, RECORDING, frames, last, steps, tin, jit,
                   insts, threads>>

\* unflatten_pytree(leaves, treedef)
TreeUnflatten ==
    /\ tout.phase = "flat"
    /\ tout' = [tout EXCEPT !.phase = "unflat",
                            !.value = unflatten_pytree(tout.leaves, tout.treedef)]
    /\ UNCHANGED <<heap, TAPE_STACK, RECORDING, frames, last, steps, tin, jit,
                   insts, threads>>

TreeNext ==
    \/ TreeFlatten
    \/ TreeUnflatten

SpecTree == TreeInit /\ [][TreeNext]_vars

\* ------------------------------------------------------------------------
\* unflatten_pytree handed other leaves than flatten_pytree returned (one
\* less, one more), or a treedef that names a type _PYTREE_REGISTRY does
\* not hold
\* ------------------------------------------------------------------------
LeavesFor(leaves) ==
    {leaves, Append(leaves, Leaf(2))}
    \cup (IF leaves = <<>> THEN {} ELSE {SubSeq(leaves, 1, Len(leaves) - 1)})

\* TreeDef((typ, meta), [treedef]) for a class Other that was never
\* registered
Foreign(treedef) ==
    TreeDef(Typ("registered", "Other", NoMeta), <<[key |-> "", t |-> treedef]>>)

TreeDefsFor(treedef) == {treedef, Foreign(treedef)}

TreeUnflattenWith ==
    /\ tout.phase = "flat"
    /\ \E leaves \in LeavesFor(tout.leaves), treedef \in TreeDefsFor(tout.treedef) :
          tout' = [phase |-> "with", leaves |-> leaves, treedef |-> treedef,
                   value |-> unflatten_pytree(leaves, treedef)]
    /\ UNCHANGED <<heap, TAPE_STACK, RECORDING, frames, last, steps, tin, jit,
                   insts, threads>>

UnflattenNext ==
    \/ TreeFlatten
    \/ TreeUnflatten
    \/ TreeUnflattenWith

SpecUnflatten == TreeInit /\ [][UnflattenNext]_vars

\* ------------------------------------------------------------------------
\* Cells on their own: Variables and sub-Cells assigned as attributes in
\* any order (the n-th attribute assigned has the n-th name)
\* ------------------------------------------------------------------------
RECURSIVE SeqsUpTo(_, _)
SeqsUpTo(S, n) ==
    IF n = 0 THEN {<<>>}
    ELSE SeqsUpTo(S, n - 1)
         \cup { Append(q, x) : q \in { r \in SeqsUpTo(S, n - 1) : Len(r) = n - 1 },
                               x \in S }

AttrNames(n) == [i \in 1..n |-> <<"a", "b", "c", "d">>[i]]

\* Cell.__setattr__, once per attribute
CellOf(cs) == Box("registered", "Cell", AttrNames(Len(cs)), cs)

FlatCells == { CellOf(cs) : cs \in SeqsUpTo(LeafObjs, MaxAttrs) }

Cells ==
    FlatCells
    \cup { CellOf(cs) : cs \in SeqsUpTo(LeafObjs \cup FlatCells, MaxAttrs) }

CellInit ==
    /\ tin \in Cells
    /\ insts = <<>>
    /\ threads = <<>>
    /\ tout = [phase |-> "none", leaves |-> <<>>, treedef |-> NoTree, value |-> NoTree]
    /\ jit = NoJit
    /\ heap = <<>>
    /\ TAPE_STACK = <<>>
    /\ RECORDING = TRUE
    /\ frames = <<>>
    /\ last = Last("init")
    /\ steps = 0

SpecCell == CellInit /\ [][TreeNext]_vars

\* ------------------------------------------------------------------------
\* The JIT layer (faketensor/src/jit).  A machine carries, besides the
\* fields of Machine, the JIT globals, err (the exception that is
\* propagating, "": none) and calls (the calls of jitted functions made,
\* each with whether it ran the user function and whether a graph had been
\* frozen for its function and argument types).
\* ------------------------------------------------------------------------
\* JITRecorder.__init__
JITRecorder == [env |-> <<>>, next |-> 0, ops |-> <<>>]

\* JITRecorder.id(obj): the recorder after the call; the id is env[obj]
recorder_id(r, obj) ==
    IF obj \in DOMAIN r.env THEN r
    ELSE [r EXCEPT !.env = Put(@, obj, r.next), !.next = @ + 1]

RECURSIVE recorder_ids(_, _, _)
recorder_ids(r, objs, k) ==
    IF k > Len(objs) THEN r
    ELSE recorder_ids(recorder_id(r, objs[k]), objs, k + 1)

IdsOf(r, objs) == [i \in 1..Len(objs) |-> r.env[objs[i]]]

StaticOp(primitive, in_ids, out_id) ==
    [primitive |-> primitive, in_ids |-> in_ids, out_id |-> out_id]

record_append(r, prim, parents, out) ==
    [r EXCEPT !.ops = Append(@, StaticOp(prim, IdsOf(r, parents), r.env[out]))]

\* JITRecorder.record(prim, parents, out)
record(r, prim, parents, out) ==
    record_append(recorder_id(recorder_ids(r, parents, 1), out), prim, parents, out)

\* getattr(self, "last_parents", ()): no primitive sets the attribute
last_parents(op, a, b) == <<>>

\* the part of new_call after old_call has returned
jit_hook(m, op, a, b) ==
    IF m.tracing /\ m.active # 0
    THEN [m EXCEPT !.recs[m.active] = record(@, op, last_parents(op, a, b), m.ret)]
    ELSE m

\* function.__call__ as _install_jit_hook leaves it
new_call(m, op, a, b) == jit_hook(MakeOP_call(m, op, a, b), op, a, b)

\* the number of positional parameters of a primitive's _fun
PrimArity(op) == IF op \in Unary THEN 1 ELSE 2

\* type(a) of a heap object
TypeOf(o) ==
    IF ~o.nd THEN "float" ELSE IF o.train THEN "NDarray" ELSE "Variable"

TypesOf(h, args) == [i \in 1..Len(args) |-> TypeOf(h[args[i]])]

jit_key_len(h, args) == Len(args)

\* key = tuple(type(a) for a in args)
jit_key(h, args) == [i \in 1..Len(args) |-> TypeOf(h[args[i]])]

\* the jitted functions of the script; <<"call", f, i>> calls the jitted
\* function f on environment slot i
JitFns == {"ident", "sqadd", "inner", "outer"}

JitCode(fn) ==
    CASE fn = "ident" -> <<>>
      [] fn = "sqadd" -> <<<<"multiply", 1, 1>>, <<"add", 3, 2>>>>
      [] fn = "inner" -> <<<<"multiply", 1, 1>>>>
      [] fn = "outer" -> <<<<"call", "inner", 1>>, <<"add", 2, 1>>>>

JitArity(fn) == IF fn = "sqadd" THEN 2 ELSE 1

Raise(m, exc) == [m EXCEPT !.err = exc]

\* trace_mode(): entering
trace_enter(m) ==
    [m EXCEPT !.tracing = TRUE, !.recs = Append(@, JITRecorder),
              !.active = Len(m.recs) + 1]

\* trace_mode(): the finally clause
trace_exit(m, prev) == [m EXCEPT !.tracing = prev]

\* StaticGraph(r.ops, input_ids, output_id): ops is the recorder's own list
\* (rec names the recorder); ops0 and args0 note the list and the arguments
\* at the moment of freezing
StaticGraph(rec, input_ids, output_id, ops0, args0) ==
    [rec |-> rec, input_ids |-> input_ids, output_id |-> output_id,
     ops0 |-> ops0, args0 |-> args0]

freeze_ids(m, r, args, out) ==
    [m EXCEPT !.recs[m.active] = r,
              !.graphs = Append(@, StaticGraph(m.active, IdsOf(r, args),
                                               r.env[out], r.ops, args)),
              !.ret = out]

\* freeze_graph(args, out)
freeze_graph(m, args, out) ==
    IF m.active = 0 THEN Raise(m, "RuntimeError")
    ELSE freeze_ids(m, recorder_id(recorder_ids(m.recs[m.active], args, 1), out),
                    args, out)

\* graph = freeze_graph(args, out), unless fun(*args) raised
jit_freeze(m, args) == IF m.err # "" THEN m ELSE freeze_graph(m, args, m.ret)

\* cache[key] = graph, unless the with block raised
jit_store(m, fn, key, types) ==
    IF m.err # "" THEN m
    ELSE [m EXCEPT !.cache = Put(@, <<fn, key>>, Len(m.graphs)),
                   !.frozen = @ \cup {<<fn, types>>}]

LogCall(m, fn, args, traced) ==
    [m EXCEPT !.calls = Append(@, [fn |-> fn, args |-> args, traced |-> traced,
                                   had |-> <<fn, TypesOf(m.heap, args)>> \in m.frozen])]

\* env[iid] = a for a, iid in zip(args, input_ids)
RECURSIVE bind_inputs(_, _, _, _)
bind_inputs(env, args, input_ids, k) ==
    IF k > MinOf(Len(args), Len(input_ids)) THEN env
    ELSE bind_inputs(Put(env, input_ids[k], args[k]), args, input_ids, k + 1)

\* a block that leaves the flag as it is when it ends
no_record_leak(m, prev) == m

\* the finally clause of no_record, around the replay: _RECORDING = prev
no_record_exit(m, prev) == [m EXCEPT !.rec = prev]

RECURSIVE replay(_, _, _, _, _)

replay_bind(m, g, env, k, prev, out_id) ==
    replay(m, g, Put(env, out_id, m.ret), k, prev)

\* ins = [env[i] for i in op.in_ids]; out = op.primitive(*ins)
replay_op(m, g, env, k, prev, op) ==
    IF \E j \in 1..Len(op.in_ids) : op.in_ids[j] \notin DOMAIN env
    THEN replay(Raise(m, "KeyError"), g, env, k, prev)
    ELSE IF Len(op.in_ids) # PrimArity(op.primitive)
    THEN replay(Raise(m, "TypeError"), g, env, k, prev)
    ELSE replay_bind(new_call(m, op.primitive, env[op.in_ids[1]],
                              IF PrimArity(op.primitive) = 1 THEN 0
                              ELSE env[op.in_ids[2]]),
                     g, env, k + 1, prev, op.out_id)

\* return env[self.output_id]
replay_return(m, g, env) ==
    IF m.graphs[g].output_id \in DOMAIN env
    THEN [m EXCEPT !.ret = env[m.graphs[g].output_id]]
    ELSE Raise(m, "KeyError")

\* the loop of StaticGraph.__call__ inside no_record(); prev is the flag
\* no_record restores
replay(m, g, env, k, prev) ==
    IF m.err # "" THEN no_record_exit(m, prev)
    ELSE IF k > Len(m.recs[m.graphs[g].rec].ops)
    THEN replay_return(no_record_exit(m, prev), g, env)
    ELSE replay_op(m, g, env, k, prev, m.recs[m.graphs[g].rec].ops[k])

\* StaticGraph.__call__(*args)
StaticGraph_call(m, g, args) ==
    replay([m EXCEPT !.rec = FALSE], g,
           bind_inputs(<<>>, args, m.graphs[g].input_ids, 1), 1, m.rec)

RECURSIVE jit_wrapped(_, _, _)
RECURSIVE RunJit(_, _, _, _)

RunJitRest(m, code, env, k) == RunJit(m, code, Append(env, m.ret), k)

\* fun(*args) of a jitted function
RunJit(m, code, env, k) ==
    IF m.err # "" THEN m
    ELSE IF k > Len(code) THEN [m EXCEPT !.ret = env[Len(env)]]
    ELSE IF code[k][1] = "call"
    THEN RunJitRest(jit_wrapped(m, code[k][2], <<env[code[k][3]]>>),
                    code, env, k + 1)
    ELSE RunJitRest(new_call(m, code[k][1], env[code[k][2]], env[code[k][3]]),
                    code, env, k + 1)

\* jit(fun).wrapped(*args)
jit_wrapped(m, fn, args) ==
    IF <<fn, jit_key(m.heap, args)>> \in DOMAIN m.cache
    THEN StaticGraph_call(LogCall(m, fn, args, FALSE),
                          m.cache[<<fn, jit_key(m.heap, args)>>], args)
    ELSE jit_store(
             trace_exit(
                 jit_freeze(RunJit(trace_enter(LogCall(m, fn, args, TRUE)),
                                   JitCode(fn), args, 1),
                            args),
                 m.tracing),
             fn, jit_key(m.heap, args), TypesOf(m.heap, args))

\* ------------------------------------------------------------------------
\* A script that calls jitted functions and primitives
\* ------------------------------------------------------------------------
JitArgs(fn) ==
    IF JitArity(fn) = 1 THEN {<<1>>, <<2>>, <<3>>}
    ELSE {<<1, 2>>, <<2, 1>>, <<1, 3>>}

JCur ==
    [heap |-> heap, stack |-> TAPE_STACK, rec |-> RECORDING, open |-> OpenTapes,
     log |-> <<>>, fin |-> <<>>, grads |-> <<>>, ret |-> 0, rets |-> <<>>,
     tree |-> NoTree, tracing |-> jit.tracing, active |-> jit.active,
     recs |-> jit.recs, graphs |-> jit.graphs, cache |-> jit.cache,
     frozen |-> jit.frozen, err |-> "", calls |-> <<>>]

JitOf(m) ==
    [tracing |-> m.tracing, active |-> m.active, recs |-> m.recs,
     graphs |-> m.graphs, cache |-> m.cache, frozen |-> m.frozen]

\* x and x2 are NDarrays, c a Python float
JitInit ==
    /\ heap = << Obj(Arr(<<>>, <<3>>), TRUE, TRUE, 1),
                 Obj(Arr(<<>>, <<5>>), TRUE, TRUE, 2),
                 Obj(Arr(<<>>, <<2>>), FALSE, FALSE, 3) >>
    /\ TAPE_STACK = <<>>
    /\ RECORDING = TRUE
    /\ frames = <<>>
    /\ last = Last("init")
    /\ steps = 0
    /\ tin = NoTree
    /\ insts = <<>>
    /\ threads = <<>>
    /\ tout = NoTree
    /\ jit = NoJit

\* a call f(*args) of a jitted function by the script
JitCall ==
    /\ steps < MaxCalls
    /\ \E fn \in JitFns : \E args \in JitArgs(fn) :
          \E m \in {jit_wrapped(JCur, fn, args)} :
             /\ heap' = m.heap
             /\ TAPE_STACK' = m.stack
             /\ RECORDING' = m.rec
             /\ jit' = JitOf(m)
             /\ last' = [Last("jit") EXCEPT !.fn = fn, !.args = args,
                            !.ret = m.ret, !.err = m.err, !.calls = m.calls,
                            !.heap0 = Len(heap), !.rec0 = RECORDING,
                            !.depth0 = Len(TAPE_STACK),
                            !.added = CountNodes(m.stack) - CountNodes(TAPE_STACK)]
    /\ steps' = steps + 1
    /\ UNCHANGED <<frames, tin, tout, insts, threads>>

\* a call of a primitive by the script, outside any jitted function
JitPrim ==
    /\ steps < MaxCalls
    /\ \E m \in {new_call(JCur, "multiply", 1, 2)} :
          /\ heap' = m.heap
          /\ TAPE_STACK' = m.stack
          /\ RECORDING' = m.rec
          /\ jit' = JitOf(m)
          /\ last' = [Last("prim") EXCEPT !.prim = "multiply", !.a = 1, !.b = 2,
                         !.ret = m.ret, !.heap0 = Len(heap)]
    /\ steps' = steps + 1
    /\ UNCHANGED <<frames, tin, tout, insts, threads>>

JitNext ==
    \/ JitCall
    \/ JitPrim

SpecJit == JitInit /\ [][JitNext]_vars

\* jitted functions called inside tape() and no_record() blocks
ReplayNext ==
    \/ TapeEnter
    \/ NoRecordEnter
    \/ JitCall
    \/ JitPrim

SpecReplay == JitInit /\ [][ReplayNext]_vars

\* ------------------------------------------------------------------------
\* The script of broadcast_backward: heap[1] is a gradient G, heap[2] a
\* parent x whose shape broadcasts to the shape of G
\* ------------------------------------------------------------------------
RECURSIVE ShapesOfRank(_)
ShapesOfRank(r) ==
    IF r = 0 THEN {<<>>}
    ELSE {<<d>> \o s : d \in 1..MaxDim, s \in ShapesOfRank(r - 1)}

\* the gradient shapes, with the shape (3, 4) of the documented example
GShapes == UNION {ShapesOfRank(r) : r \in 0..MaxRank} \cup {<<3, 4>>}

\* the shapes of rank <= Len(sh) that numpy broadcasts to exactly sh
BroadcastsTo(sh) ==
    {s \in UNION {[1..r -> (1..MaxDim) \cup {4}] : r \in 0..Len(sh)} :
        \A k \in 1..Len(s) : s[k] \in {1, sh[k + Len(sh) - Len(s)]}}

\* entries a * i + b
Ramp(shape, a, b) == Arr(shape, [i \in 1..Size(shape) |-> a * i + b])

BInit ==
    /\ \E sg \in GShapes : \E sx \in BroadcastsTo(sg) :
       \E p \in {<<1, 0>>, <<-2, 3>>, <<3, -1>>} :
          heap = << Obj(Ramp(sg, p[1], p[2]), TRUE, TRUE, 1),
                    Obj(ones_like(Arr(sx, <<>>)), TRUE, TRUE, 2) >>
    /\ TAPE_STACK = <<>>
    /\ RECORDING = TRUE
    /\ frames = <<>>
    /\ last = Last("init")
    /\ steps = 0
    /\ tin = NoTree
    /\ insts = <<>>
    /\ threads = <<>>
    /\ tout = NoTree
    /\ jit = NoJit

\* broadcast_backward(G, x.shape) called by the script
CallBroadcast ==
    /\ steps < MaxApply
    /\ \E m \in {broadcast_backward(Cur, 1, heap[2].shape)} :
          /\ heap' = m.heap
          /\ TAPE_STACK' = m.stack
          /\ RECORDING' = m.rec
          /\ last' = [Last("broadcast") EXCEPT !.a = 1, !.b = 2, !.ret = m.ret,
                         !.heap0 = Len(heap)]
    /\ steps' = steps + 1
    /\ UNCHANGED <<frames, tin, tout, jit, insts, threads>>

\* the grad_fn of the node of add(z, x), z of the shape of G
add_grad(m, z, x, g) == grad_fn(m, Node(m.ret, <<z, x>>, "add", 0), g)

add_zeros(m, x, g) == add_grad(MakeOP_call(m, "add", m.ret, x), m.ret, x, g)

\* z = zeros of the shape of G; add(z, x); the node's grad_fn(G)
CallAddGrad ==
    /\ steps < MaxApply
    /\ \E m \in {add_zeros(Alloc(Cur, zeros_like(heap[1]), TRUE), 2, 1)} :
          /\ heap' = m.heap
          /\ TAPE_STACK' = m.stack
          /\ RECORDING' = m.rec
          /\ last' = [Last("add_grad") EXCEPT !.a = Len(heap) + 1, !.b = 2,
                         !.ret = m.rets[2], !.heap0 = Len(heap)]
    /\ steps' = steps + 1
    /\ UNCHANGED <<frames, tin, tout, jit, insts, threads>>

BNext ==
    \/ CallBroadcast
    \/ CallAddGrad

SpecBroadcast == BInit /\ [][BNext]_vars

\* ========================================================================
\* Properties
\* ========================================================================

\* the derivative of the sum of the entries of code(inputs) with respect to
\* the entries of the array object L, by forward propagation of tangents;
\* vs and ts are the values and tangents of the environment
TangentStep(ins, vs, ts) ==
    LET a == vs[ins[2]]
        ta == ts[ins[2]]
        b == IF ins[3] = 0 THEN a ELSE vs[ins[3]]
        tb == IF ins[3] = 0 THEN ta ELSE ts[ins[3]]
    IN CASE ins[1] = "add" -> [v |-> lib_add(a, b), t |-> lib_add(ta, tb)]
         [] ins[1] = "multiply" ->
              [v |-> lib_multiply(a, b),
               t |-> lib_add(lib_multiply(ta, b), lib_multiply(a, tb))]
         [] ins[1] = "negative" -> [v |-> lib_negative(a), t |-> lib_negative(ta)]
         [] ins[1] = "sq1" ->
              [v |-> lib_add(lib_multiply(a, a), a),
               t |-> lib_multiply(ta, lib_add(lib_add(a, a), Arr(<<>>, <<1>>)))]

RECURSIVE Tangent(_, _, _, _)
Tangent(code, vs, ts, k) ==
    IF k > Len(code) THEN SumSeq(ts[Len(ts)].data)
    ELSE LET r == TangentStep(code[k], vs, ts)
         IN Tangent(code, Append(vs, r.v), Append(ts, r.t), k + 1)

UnitArr(a, j) == Arr(a.shape, [i \in 1..Size(a.shape) |-> IF i = j THEN 1 ELSE 0])

Derivative(h, code, inputs, L) ==
    Arr(h[L].shape,
        [j \in 1..Size(h[L].shape) |->
            Tangent(code,
                    [p \in 1..Len(inputs) |-> Arr(h[inputs[p]].shape, h[inputs[p]].data)],
                    [p \in 1..Len(inputs) |->
                        IF inputs[p] = L THEN UnitArr(h[L], j)
                        ELSE zeros_like(h[inputs[p]])],
                    1)])

ValueOf(id) == Arr(heap[id].shape, heap[id].data)

GradDone == last.op = "grad"

\* a grad call made while _RECORDING was True
GradRecorded == GradDone /\ last.rec0

\* the tape a reverse pass walked, and the node of a logged grad_fn call
NodeOf(e) == TAPE_STACK[e.tape][e.idx]

UnaryVal(f, u) == CASE f = "sq" -> u * u [] f = "neg" -> 0 - u [] f = "dbl" -> u + u

UnaryD(f, u) == CASE f = "sq" -> 2 * u [] f = "neg" -> 0 - 1 [] f = "dbl" -> 2

\* h'(g(f(u))) * g'(f(u)) * f'(u)
ChainProduct(f, g, h, u) ==
    UnaryD(h, UnaryVal(g, UnaryVal(f, u))) * UnaryD(g, UnaryVal(f, u)) * UnaryD(f, u)

\* C1: a reverse pass calls the grad_fns in the exact reverse of the order
\* in which the nodes were appended to its tape: a node is visited only
\* after every visited node that consumes its output, the gradient handed
\* to its grad_fn is the one the pass ends with for its output, and for
\* z = h(g(f(x))) the gradient returned is h'(g(f(x))) * g'(f(x)) * f'(x).
C1_ReverseOrder ==
    GradDone =>
       /\ \A p, q \in 1..Len(last.log) :
             (p < q /\ last.log[p].pass = last.log[q].pass) =>
                /\ last.log[p].tape = last.log[q].tape
                /\ last.log[p].idx > last.log[q].idx
                /\ \A k \in 1..Len(NodeOf(last.log[q]).parents) :
                      NodeOf(last.log[q]).parents[k] # last.log[p].out
       /\ \A p \in 1..Len(last.log) :
             /\ NodeOf(last.log[p]).out = last.log[p].out
             /\ last.fin[last.log[p].pass].grads[last.log[p].out] = last.log[p].g
       /\ \A f, g, h \in UnaryFns :
             (last.rec0 /\ last.job.code = Chain(f, g, h) /\ last.job.d = 1) =>
                /\ last.tree.k = "leaf" /\ last.tree.v # 0
                /\ ValueOf(last.tree.v) =
                      Arr(heap[1].shape,
                          [i \in 1..Size(heap[1].shape) |->
                              ChainProduct(f, g, h, heap[1].data[i])])

C1_Witness ==
    /\ GradRecorded
    /\ last.job.code = Chain("sq", "neg", "sq")
    /\ Len(last.log) = 3
    /\ heap[1].data = <<1, -2>>
    /\ ValueOf(last.tree.v) = Arr(<<2>>, <<4, -32>>)

\* C2: for y = f(x) + g(x) the gradient returned for x is f'(x) + g'(x),
\* whichever of the two nodes is first on the tape.
C2_FanOut ==
    \A f, g \in UnaryFns :
       (GradRecorded /\ last.job.code = Fan(f, g)) =>
          /\ last.tree.k = "leaf" /\ last.tree.v # 0
          /\ ValueOf(last.tree.v) =
                Arr(heap[1].shape,
                    [i \in 1..Size(heap[1].shape) |->
                        UnaryD(f, heap[1].data[i]) + UnaryD(g, heap[1].data[i])])

C2_Witness ==
    /\ GradRecorded
    /\ last.job.code = Fan("neg", "sq")
    /\ heap[1].data = <<-3>>
    /\ ValueOf(last.tree.v) = Arr(<<>>, <<-7>>)

\* the arguments after expand_cell, as the list grad flattens, and the
\* leaves of that list and of the returned tree
ExpandedArgs ==
    Box("seq", "list", <<>>,
        [i \in 1..Len(last.job.args) |->
            IF last.job.args[i].k = "registered"
            THEN LET ps == parameters(last.job.args[i])
                     tr == SelectIdx(Len(ps), LAMBDA j : heap[ps[j]].train)
                 IN Box("seq", "list", <<>>, [j \in 1..Len(tr) |-> Leaf(ps[tr[j]])])
            ELSE last.job.args[i]])

RECURSIVE LeavesOf(_)
LeavesOf(x) ==
    IF x.k \in {"leaf", "raised"} THEN <<x>>
    ELSE Concat([i \in 1..Len(x.c) |-> LeavesOf(x.c[i])])

RECURSIVE SameShape(_, _)
SameShape(a, b) ==
    /\ a.k = b.k
    /\ a.k # "leaf" =>
          /\ a.cls = b.cls
          /\ a.keys = b.keys
          /\ Len(a.c) = Len(b.c)
          /\ \A i \in 1..Len(a.c) : SameShape(a.c[i], b.c[i])

Trainable(x) == heap[x].nd /\ heap[x].train

ArgLeaves == LeavesOf(ExpandedArgs)

ResLeaves == LeavesOf(last.tree)

FinalGrads == last.fin[Len(last.fin)].grads

\* C3: every differentiable argument leaf that has no entry in the gradient
\* dictionary when the reverse pass ends gets an all-zero array of its own
\* shape in the result; the call does not raise and the slot is not None.
C3_ZeroDefault ==
    GradDone =>
       /\ last.tree.k # "raised"
       /\ Len(ResLeaves) = Len(ArgLeaves)
       /\ \A i \in 1..Len(ArgLeaves) :
             (Trainable(ArgLeaves[i].v) /\ ArgLeaves[i].v \notin DOMAIN FinalGrads) =>
                /\ ResLeaves[i].k = "leaf" /\ ResLeaves[i].v # 0
                /\ ValueOf(ResLeaves[i].v) =
                      Arr(heap[ArgLeaves[i].v].shape,
                          [j \in 1..Size(heap[ArgLeaves[i].v].shape) |-> 0])

C3_Witness ==
    /\ GradRecorded
    /\ last.job.code = Square
    /\ last.job.args = <<Leaf(1), Leaf(2)>>
    /\ heap[2].shape = <<2>>
    /\ 2 \notin DOMAIN FinalGrads
    /\ ValueOf(ResLeaves[2].v) = Arr(<<2>>, <<0, 0>>)
    /\ ValueOf(ResLeaves[1].v) = Arr(<<>>, <<-6>>)

AllNodes == Concat(TAPE_STACK)

\* C6: a call of a primitive whose forward itself calls wrapped primitives
\* appends one Node, its own, to the active tape when recording is on, and
\* none otherwise; the calls made inside the forward append nothing.
C6_OneNode ==
    /\ (last.op = "prim" /\ last.prim = "sq1") =>
          /\ last.added = (IF TAPE_STACK # <<>> /\ last.rec0 THEN 1 ELSE 0)
          /\ last.added = 1 =>
                LET top == TAPE_STACK[Len(TAPE_STACK)]
                IN top[Len(top)] = [out |-> last.ret, parents |-> <<last.a>>,
                                    op |-> "sq1", owner |-> top[Len(top)].owner]
    /\ \A i, j \in 1..Len(AllNodes) :
          (AllNodes[i].op = "sq1" /\ i # j) =>
             AllNodes[j].out \notin {AllNodes[i].out, AllNodes[i].out - 1}

C6_Witness ==
    /\ last.op = "prim" /\ last.prim = "sq1"
    /\ OpenTapes # <<>>
    /\ last.added = 1
    /\ Len(heap) = last.heap0 + 2

\* C7: a primitive called while no tape() block is open appends no Node.
C7_Inactive ==
    (last.op = "prim" /\ OpenTapes = <<>>) => last.added = 0

InNoRecord == \E i \in 1..Len(frames) : frames[i].kind = "no_record"

\* C8: a primitive (or a whole grad call) executed inside a no_record block
\* appends no Node, also while a tape is active, and when a no_record block
\* is left, normally or by an exception, _RECORDING has the value it had
\* when that block was entered.
C8_NoRecord ==
    /\ (last.op \in {"prim", "grad"} /\ InNoRecord) => last.added = 0
    /\ last.op = "no_record_exit" => RECORDING = last.rec0
    /\ RECORDING = ~InNoRecord

C8_Witness ==
    /\ last.op = "no_record_exit" /\ last.exc
    /\ InNoRecord
    /\ TAPE_STACK # <<>>
    /\ RECORDING = FALSE

\* C9: grad(grad(lambda x: x*x))(x) is 2 in every entry, for every x.
C9_SecondOrder ==
    (GradRecorded /\ last.job.code = Square /\ last.job.d = 2) =>
       /\ last.tree.k = "leaf" /\ last.tree.v # 0
       /\ ValueOf(last.tree.v) =
             Arr(heap[1].shape, [i \in 1..Size(heap[1].shape) |-> 2])

C9_Witness ==
    /\ GradRecorded /\ last.job.code = Square /\ last.job.d = 2
    /\ heap[1].data = <<1, -2>>
    /\ ValueOf(last.tree.v) = Arr(<<2>>, <<2, 2>>)
    /\ Len(last.fin) = 2

\* C10: every Node executed inside a tape() block is on the tape that the
\* innermost block open at that moment pushed.
C10_NotMerged ==
    \A t \in 1..Len(TAPE_STACK) : \A i \in 1..Len(TAPE_STACK[t]) :
       TAPE_STACK[t][i].owner # 0 => TAPE_STACK[t][i].owner = t

\* C5: unflatten_pytree(*flatten_pytree(x)) returns, without raising, a
\* value with the container kinds of x and the leaf objects of x in the
\* same positions.
C5_RoundTrip ==
    tout.phase = "unflat" => tout.value = tin

\* C11: entering a tape() block pushes a new empty tape, and once the block
\* has been left, normally or by an exception, the top of TAPE_STACK is the
\* tape that block pushed.
C11_ScopeTape ==
    /\ last.op = "tape_enter" =>
          /\ Len(TAPE_STACK) = last.scope
          /\ TAPE_STACK[last.scope] = <<>>
    /\ last.op = "tape_exit" =>
          /\ TAPE_STACK # <<>>
          /\ active_tape(TAPE_STACK) = last.scope

\* C12: when a tape() block has been left the stack is as deep as it was
\* before the block was entered, and after a grad call as deep as before
\* the call (empty when no block is open).
C12_Lifecycle ==
    last.op \in {"tape_exit", "grad"} =>
       /\ Len(TAPE_STACK) = last.depth0
       /\ OpenTapes = <<>> => TAPE_STACK = <<>>

\* the value direct evaluation of a jitted function's body gives
DirectVal(fn, args) ==
    LET x == [shape |-> heap[args[1]].shape, data |-> heap[args[1]].data]
        y == [shape |-> heap[args[Len(args)]].shape, data |-> heap[args[Len(args)]].data]
    IN CASE fn = "ident" -> x
         [] fn = "sqadd" -> lib_add(lib_multiply(x, x), y)
         [] fn = "inner" -> lib_multiply(x, x)
         [] fn = "outer" -> lib_add(lib_multiply(x, x), x)

\* C13: every call of a jitted function, the tracing one and the later
\* ones, returns the value direct evaluation gives on the same arguments.
C13_Replay ==
    last.op = "jit" =>
       /\ last.err = ""
       /\ ValueOf(last.ret) = DirectVal(last.fn, last.args)

\* C14: a call of a jitted function runs the user function exactly when no
\* graph has been frozen for that function and the types of its arguments.
C14_Cache ==
    last.op = "jit" =>
       \A i \in 1..Len(last.calls) : last.calls[i].traced = ~last.calls[i].had

C14_Witness ==
    /\ last.op = "jit" /\ last.fn = "ident" /\ last.args = <<2>>
    /\ Len(last.calls) = 1
    /\ last.calls[1].had /\ ~last.calls[1].traced
    /\ last.err = ""
    /\ \E g \in 1..Len(jit.graphs) : jit.graphs[g].args0 = <<1>> /\ jit.graphs[g].ops0 = <<>>
    /\ \E h \in 1..Len(jit.graphs) : jit.graphs[h].args0 = <<3>>

\* C15: the operations, input ids and output id of a frozen graph are what
\* they were when freeze_graph returned it.
C15_Frozen ==
    \A g \in 1..Len(jit.graphs) :
       jit.recs[jit.graphs[g].rec].ops = jit.graphs[g].ops0

\* ------------------------------------------------------------------------
\* C16  Broadcast-reduction: broadcast_backward(G, S), S a shape that
\* broadcasts to the shape of G, has exactly shape S, and each entry is the
\* sum of the entries of G broadcast from its position; the gradient of
\* add(x, y) for y is broadcast_backward of the output gradient, which for
\* x of shape (3, 4) and y of shape (4,) is its sum over axis 0.
\* ------------------------------------------------------------------------
\* the sum of the entries of G read from position j of an array of shape s
BroadcastSum(G, s, j) ==
    SumSeq([i \in 1..Size(G.shape) |->
        IF BroadcastIndex(s, G.shape, i) = j THEN G.data[i] ELSE 0])

C16_BroadcastReduce ==
    last.op \in {"broadcast", "add_grad"} =>
        /\ heap[last.ret].shape = heap[2].shape
        /\ \A j \in 1..Size(heap[2].shape) :
              heap[last.ret].data[j] = BroadcastSum(heap[1], heap[2].shape, j)

\* the documented example: x of shape (3, 4), y of shape (4,)
C16_Witness ==
    /\ last.op = "add_grad"
    /\ heap[1].shape = <<3, 4>> /\ heap[1].data[1] = 1 /\ heap[1].data[2] = 2
    /\ heap[2].shape = <<4>>
    /\ heap[last.a].shape = <<3, 4>>
    /\ heap[last.ret].shape = <<4>>
    /\ heap[last.ret].data = <<1 + 5 + 9, 2 + 6 + 10, 3 + 7 + 11, 4 + 8 + 12>>

\* ------------------------------------------------------------------------
\* C17  value_and_grad(fun)(*args) returns (output, gradients): output is
\* the value of fun(*args), gradients is what grad(fun)(*args) returns for
\* the same arguments, for one argument and for several.
\* ------------------------------------------------------------------------
\* the interpreter state in which the last call was made
Before ==
    Machine(SubSeq(heap, 1, last.heap0), SubSeq(TAPE_STACK, 1, last.depth0),
            last.rec0, OpenTapes)

NoneVal == [shape |-> <<>>, data |-> <<>>]

ArrVal(h, x) == IF x = 0 THEN NoneVal ELSE [shape |-> h[x].shape, data |-> h[x].data]

\* a returned tree with every leaf replaced by its value
RECURSIVE TreeVal(_, _)
TreeVal(h, t) ==
    IF t.k = "leaf" THEN [t EXCEPT !.v = ArrVal(h, t.v)]
    ELSE IF t.k \in {"raised", "none"} THEN t
    ELSE [t EXCEPT !.c = [i \in 1..Len(t.c) |-> TreeVal(h, t.c[i])]]

\* fun(*args) and grad(fun)(*args) called in the state Before
DirectOut(job) == Call(Before, job.code, 0, job.args)

GradOut(job) == Call(Before, job.code, 1, job.args)

SameOut(m) == ArrVal(heap, last.ret) = ArrVal(m.heap, m.ret)

SameGrads(m) == TreeVal(heap, last.tree) = TreeVal(m.heap, m.tree)

C17_ValueAndGrad ==
    last.op = "value_and_grad" =>
        /\ last.tree.k # "raised" => SameOut(DirectOut(last.job))
        /\ SameGrads(GradOut(last.job))

\* several arguments: the product of two arrays, a gradient for each
C17_Witness ==
    /\ last.op = "value_and_grad"
    /\ last.job.code = Product /\ last.job.args = <<Leaf(1), Leaf(2)>>
    /\ heap[1].data = <<1, -2>> /\ heap[2].data = <<2, 3>>
    /\ last.ret # 0 /\ heap[last.ret].data = <<2, -6>>
    /\ last.tree.k = "seq" /\ Len(last.tree.c) = 2
    /\ heap[last.tree.c[1].v].data = <<2, 3>>
    /\ heap[last.tree.c[2].v].data = <<1, -2>>

\* ------------------------------------------------------------------------
\* C18  Leaf identity: two leaves share one accumulator entry exactly when
\* they are the same object; two distinct leaf objects, even numerically
\* equal ones, have distinct keys and their gradients are accumulated
\* separately.
\* ------------------------------------------------------------------------
\* the gradients of x * y and of x + y for x, y of one shape
PairGrads(code, x, y) ==
    IF code = Product THEN <<ArrVal(heap, y), ArrVal(heap, x)>>
    ELSE <<ones_like(heap[x]), ones_like(heap[y])>>

C18_LeafIdentity ==
    last.op = "grad_pair" =>
        /\ id_leaf(heap, last.a) = id_leaf(heap, last.b) <=> last.a = last.b
        /\ last.a # last.b /\ heap[last.a].shape = heap[last.b].shape =>
              /\ ArrVal(heap, last.tree.c[1].v) = PairGrads(last.job.code, last.a, last.b)[1]
              /\ ArrVal(heap, last.tree.c[2].v) = PairGrads(last.job.code, last.a, last.b)[2]

\* ------------------------------------------------------------------------
\* C19  A None entry in the tuple a grad_fn returns is dropped: it creates
\* no accumulator entry for that parent, changes no existing entry, and the
\* contributions for the other parents of the same Node are accumulated (as
\* for the condition operand of where).
\* ------------------------------------------------------------------------
WhereShape ==
    BroadcastShape(BroadcastShape(heap[1].shape, heap[2].shape), heap[3].shape)

\* 1 where the condition is (t = TRUE) or is not (t = FALSE) zero
Mask(t) ==
    Arr(WhereShape, [i \in 1..Size(WhereShape) |->
        IF (At(heap[1], WhereShape, i) = 0) = t THEN 1 ELSE 0])

\* the gradient of the output with respect to the operand x of the script
WhereGradX(code) ==
    IF code = WhereSquare
    THEN lib_multiply(Mask(FALSE), lib_multiply(heap[2], Arr(<<>>, <<2>>)))
    ELSE Mask(FALSE)

\* G summed back to the shape of the heap object x
Reduced(G, x) ==
    [shape |-> heap[x].shape,
     data |-> [j \in 1..Size(heap[x].shape) |-> BroadcastSum(G, heap[x].shape, j)] \o <<>>]

WhereVisited == \E i \in 1..Len(last.log) : NodeOf(last.log[i]).op = "where"

PassGrads == last.fin[1].grads

C19_NoneDropped ==
    last.op = "grad_where" =>
        /\ WhereVisited
        /\ last.job.code # WherePlus => 1 \notin DOMAIN PassGrads
        /\ last.job.code = WherePlus =>
              /\ 1 \in DOMAIN PassGrads
              /\ ArrVal(heap, PassGrads[1]) = Reduced(ones_like(Arr(WhereShape, <<>>)), 1)
        /\ 2 \in DOMAIN PassGrads /\ 3 \in DOMAIN PassGrads
        /\ ArrVal(heap, PassGrads[2]) = Reduced(WhereGradX(last.job.code), 2)
        /\ ArrVal(heap, PassGrads[3]) = Reduced(Mask(TRUE), 3)

C19_Witness ==
    /\ last.op = "grad_where" /\ last.job.code = Where
    /\ heap[1].data = <<1, 0>> /\ heap[2].data = <<1, -2>> /\ heap[3].data = <<2, 3>>
    /\ WhereVisited
    /\ DOMAIN PassGrads = {last.heap0 + 1, 2, 3}
    /\ heap[PassGrads[2]].data = <<1, 0>>
    /\ heap[PassGrads[3]].data = <<0, 1>>
    /\ last.tree.c[1].v # 0 /\ heap[last.tree.c[1].v].data = <<0, 0>>

\* ------------------------------------------------------------------------
\* C20  If a grad_fn raises during the reverse pass, the exception reaches
\* the caller of grad/value_and_grad unmodified, no grad_fn of a Node not
\* yet visited is called, and no gradient result, partial or complete, is
\* returned.
\* ------------------------------------------------------------------------
\* the grad_fn of the custom function was called in the last call
BoomVisited == \E i \in 1..Len(last.log) : NodeOf(last.log[i]).op = "boom"

C20_RaisePropagates ==
    (last.op = "grad_raise" /\ BoomVisited) =>
        /\ last.err = "ValueError"
        /\ NodeOf(last.log[Len(last.log)]).op = "boom"
        /\ last.fin = <<>> /\ last.tree = NoTree /\ last.ret = 0

\* y = x * x + boom(x): add is visited, boom raises, multiply is not visited
C20_Witness ==
    /\ last.op = "grad_raise" /\ last.job.code = BoomFan("sq")
    /\ last.err = "ValueError"
    /\ Len(last.log) = 2
    /\ NodeOf(last.log[1]).op = "add" /\ NodeOf(last.log[2]).op = "boom"
    /\ last.log[2].idx = 2
    /\ TAPE_STACK[last.log[2].tape][1].op = "multiply"
    /\ last.fin = <<>> /\ last.tree = NoTree

\* the reverse pass of the last call: its tape, and the indices of the
\* nodes whose grad_fn it called
DeadDone == last.op = "grad_dead" /\ last.rec0

PassTape == TAPE_STACK[last.fin[1].tape]

Called(i) == \E e \in 1..Len(last.log) : last.log[e].idx = i

\* C24: a node whose output has no accumulator entry when the reverse pass
\* reaches it is skipped: for u = f(x), v = g(x), y = h(u) the grad_fn of
\* the node of v is not called (even one that would raise), the accumulator
\* gets no entry for v, nothing is raised, the pass goes on to the node of
\* u, and the gradient returned is h'(f(x)) * f'(x).
C24_DeadBranch ==
    DeadDone =>
       /\ last.err = ""
       /\ Len(last.fin) = 1
       /\ ~Called(2)
       /\ Called(3) /\ Called(1)
       /\ Get(last.fin[1].grads, heap[PassTape[2].out].np) = 0
       /\ last.tree.k = "leaf" /\ last.tree.v # 0
       /\ ValueOf(last.tree.v) =
             Arr(heap[1].shape,
                 [i \in 1..Size(heap[1].shape) |->
                     UnaryD(last.fn[3], UnaryVal(last.fn[1], heap[1].data[i]))
                        * UnaryD(last.fn[1], heap[1].data[i])])

C24_Witness ==
    /\ DeadDone
    /\ last.fn = <<"sq", "boom", "neg">>
    /\ PassTape[2].op = "boom"
    /\ Len(last.log) = 2
    /\ heap[1].data = <<1, -2>>
    /\ ValueOf(last.tree.v) = Arr(<<2>>, <<-2, 4>>)

\* C28: a reverse pass calls the grad_fn of each node its tape held when it
\* began at most once, and exactly once where every node is live (every
\* first-order call of the script), and of no node appended to that tape
\* while it ran, though the grad_fns of multiply and of the custom op
\* append nodes to the tape the pass walks.
C28_PassTerminates ==
    GradRecorded =>
       /\ \A p \in 1..Len(last.log) :
             /\ last.log[p].idx \in 1..last.log[p].n
             /\ \A q \in 1..Len(last.log) :
                   (last.log[p].pass = last.log[q].pass
                       /\ last.log[p].idx = last.log[q].idx) => p = q
       /\ last.job.d = 1 =>
             /\ Len(last.log) = Len(last.job.code)
             /\ \A p \in 1..Len(last.log) : last.log[p].n = Len(last.job.code)

C28_Witness ==
    /\ GradRecorded
    /\ last.job.code = Square /\ last.job.d = 1
    /\ Len(last.log) = 1
    /\ last.log[1].n = 1
    /\ Len(TAPE_STACK[last.log[1].tape]) = 5

\* the value attached to x under the attribute name, NoTree when x has
\* no such attribute
Attr(x, name) ==
    IF \E i \in 1..Len(x.keys) : x.keys[i] = name
    THEN x.c[CHOOSE i \in 1..Len(x.keys) : x.keys[i] = name]
    ELSE NoTree

\* every Variable and sub-Cell of x is attached to y under the same name
RECURSIVE SameAttrs(_, _)
SameAttrs(x, y) ==
    /\ y.k = "registered" /\ y.cls = "Cell"
    /\ \A i \in 1..Len(x.keys) :
          /\ Attr(y, x.keys[i]).k = x.c[i].k
          /\ IF x.c[i].k = "leaf" THEN Attr(y, x.keys[i]) = x.c[i]
             ELSE SameAttrs(x.c[i], Attr(y, x.keys[i]))

\* C27: whatever the order in which the Variables and sub-Cells of a Cell
\* were assigned, unflatten(*flatten(cell)) is a Cell in which each of them
\* is attached under the attribute name it had in the original.
C27_CellRoundTrip ==
    tout.phase = "unflat" => SameAttrs(tin, tout.value)

\* the number of leaf slots of a treedef, and whether it names a type that
\* _unflatten knows no rule for
RECURSIVE Slots(_)
Slots(treedef) ==
    IF treedef.typ.tag = "leaf" THEN 1
    ELSE SumSeq([i \in 1..Len(treedef.children) |-> Slots(treedef.children[i].t)])

RECURSIVE Unregistered(_)
Unregistered(treedef) ==
    \/ treedef.typ.tag = "class" /\ treedef.typ.cls \notin {"list", "tuple"}
    \/ treedef.typ.tag = "registered" /\ treedef.typ.cls \notin PYTREE_REGISTRY
    \/ \E i \in 1..Len(treedef.children) : Unregistered(treedef.children[i].t)

\* C22: unflatten_pytree(leaves, treedef) raises whenever the number of
\* leaves differs from the number of leaf slots of treedef, too few or too
\* many, and whenever treedef names a composite type that is not
\* registered (any exception is taken for the failure).
C22_StructureMismatch ==
    (tout.phase = "with"
        /\ (Len(tout.leaves) # Slots(tout.treedef) \/ Unregistered(tout.treedef)))
       => tout.value.k = "raised"

\* the last call of a jitted function was answered by replaying a graph
Replayed == last.op = "jit" /\ ~last.calls[1].traced

C21_WrapTime ==
    /\ (last.op = "wrap" /\ last.fn \notin Conforming) => last.err # ""
    /\ \A i \in 1..Len(insts) : insts[i].fun \in Conforming

\* the Node the last call appended to the active tape
LastNode == TAPE_STACK[Len(TAPE_STACK)][Len(TAPE_STACK[Len(TAPE_STACK)])]

\* C30: every call apply(*args) of an Op instance on which add_parents was
\* never called, the first and every later one, records a Node whose
\* parents are the arguments of that call.
C30_ApplyParents ==
    (last.op = "apply" /\ last.added = 1 /\ ~insts[last.scope].by_user) =>
       /\ LastNode.out = last.ret
       /\ LastNode.parents = <<last.a>>

\* C26: a call fuse(fun)(*args) made while recording on an active tape
\* appends exactly one Node to that tape, whose parents are the operands
\* the captured primitives consumed and did not produce (here the
\* arguments of the call), and whose grad_fn returns their gradients: the
\* gradient of fuse(fun) for fun = h(g(f(x))) is h'(g(f(x))) * g'(f(x)) * f'(x).
C26_Fuse ==
    /\ (last.op = "fused" /\ last.rec0 /\ last.depth0 > 0) =>
          /\ last.added = 1
          /\ Len(TAPE_STACK) = last.depth0
          /\ LastNode.out = last.ret
          /\ LastNode.parents = last.args
    /\ (last.op = "grad_fused" /\ last.rec0) =>
          /\ last.tree.k = "leaf" /\ last.tree.v # 0
          /\ ValueOf(last.tree.v) =
                Arr(heap[1].shape,
                    [i \in 1..Size(heap[1].shape) |->
                        ChainProduct(last.fn[1], last.fn[2], last.fn[3],
                                     heap[1].data[i])])

\* C23: the threads share one TAPE_STACK: the tape a thread appends a Node
\* to, and the tape its reverse pass takes for its own, is the top of the
\* stack at that moment, whichever thread pushed it.  So there is an
\* interleaving of two grad calls (C23_Witness) in which the Node of one
\* call lies on the tape the other call pushed and the reverse pass of
\* that call walks the other call's tape.
C23_SharedStack ==
    \A i \in 1..Len(threads) :
       /\ \A e \in 1..Len(threads[i].appended) :
             threads[i].appended[e].tape = threads[i].appended[e].top
       /\ threads[i].records = threads[i].rtop

C23_Witness ==
    /\ threads[1].job = "grad" /\ threads[2].job = "grad"
    /\ threads[1].pushed = 1 /\ threads[2].pushed = 2
    /\ threads[1].appended = <<[tape |-> 2, top |-> 2]>>
    /\ threads[1].records = 2
    /\ Len(threads[1].log) = 1
    /\ threads[1].log[1].tape = 2
    /\ threads[1].log[1].out = threads[1].out

\* no wrapped primitive is being called by any thread
NoneInFlight ==
    \A i \in 1..Len(threads) : threads[i].pc \in {"idle", "call", "out", "reverse"}

\* C29: once the wrapped-primitive calls of the two threads have all
\* returned, _RECORDING has the value it had before any of them began
\* (True): recording is never left suppressed while no call is in flight.
C29_FlagRestored ==
    (threads # <<>> /\ NoneInFlight) => RECORDING

====
